---- MODULE Spec2Model ----
(***************************************************************************)
(* Model of the RAG ingestion and query pipeline of the model-comparison   *)
(* application (Comparison/app.py, Comparison/utils/rag_utils.py,          *)
(* Comparison/utils/helpers.py).                                           *)
(*                                                                         *)
(* A string is a sequence of tokens: a token is a run of characters that   *)
(* the code never looks inside (a word, a delimiter line), or one of the   *)
(* characters the code does look for ("." and "/" in a file name).  An     *)
(* optional value (Python None) is the empty sequence, a present value x   *)
(* is <<x>>.                                                               *)
(***************************************************************************)
EXTENDS Integers, Sequences, FiniteSets, TLC

VARIABLES
    \* ---- st.session_state ----
    OPENAI_API_KEY,        \* "" or a key
    vector_store,          \* None or Some([docs |-> chunks held by the index])
    rag_index_ready,
    uploaded_files_info,   \* sequence of [name, source]
    use_rag_context,
    processing_docs,
    temp_local,            \* key _temp_local_files_to_process: None or Some(list)
    temp_drive,            \* key _temp_drive_files_to_process: None or Some(list)
    \* ---- position and locals of the ingestion processing block ----
    pc,                    \* "idle", "block" (the processing block runs) or "finished"
    i_local,               \* local files already iterated
    i_drive,               \* drive files already iterated
    all_docs,
    processed_files_info,
    has_errors,
    \* ---- what the current / latest ingestion run did (history) ----
    ui,                    \* messages the run displayed (st.warning/error/success)
    run_start,             \* <<vector_store, rag_index_ready, uploaded_files_info>> at the click
    run_log,               \* one entry per iterated file
    run_end,               \* None while running, Some(summary) once the block has finished
    \* ---- st.session_state of the chat ----
    left_messages,
    right_messages,
    left_model,
    right_model,
    project_context,       \* "" or the context fetched from Jira
    processing_response,   \* key _processing_response is present
    user_query_for_processing,  \* key _user_query_for_processing: None or Some(text)
    \* ---- what the latest chat interaction did (history) ----
    chat_ui,               \* messages it displayed
    turn_log,              \* <<>> or <<left call, right call>> of the latest response processing
    \* ---- argument and result of format_retrieved_docs applied on its own ----
    fmt_docs,
    fmt_out,               \* None or Some(the string returned for fmt_docs)
    \* ---- arguments and result of a retriever query on its own ----
    srch_store,            \* the chunks the index holds, in insertion order
    srch_query,
    srch_out,              \* None or Some(the chunks returned)
    \* ---- argument and result of split_documents applied on its own ----
    split_in,
    split_out,             \* None or Some(the chunks returned for split_in)
    \* ---- a drive listing, the options picked in it, and the selection built ----
    drive_source,          \* "google" or "onedrive"
    drive_files_list,      \* google_files / ms_files: sequence of [id, name]
    drive_picked,          \* positions of the options the multiselect returns
    drive_info             \* None or Some(the entries added to selected_drive_files_info)

ingest_vars == <<OPENAI_API_KEY, vector_store, rag_index_ready, uploaded_files_info,
                 processing_docs, temp_local, temp_drive, pc, i_local, i_drive,
                 all_docs, processed_files_info, has_errors, ui, run_start,
                 run_log, run_end>>

chat_vars == <<use_rag_context, left_messages, right_messages, left_model, right_model,
               project_context, processing_response, user_query_for_processing,
               chat_ui, turn_log>>

fmt_vars == <<fmt_docs, fmt_out>>

search_vars == <<srch_store, srch_query, srch_out>>

split_vars == <<split_in, split_out>>

select_vars == <<drive_source, drive_files_list, drive_picked, drive_info>>

\* the variables of the functions applied on their own
pure_vars == <<fmt_vars, search_vars, split_vars, select_vars>>

vars == <<ingest_vars, chat_vars, pure_vars>>

-----------------------------------------------------------------------------
(* Bounds of the model *)

\* files selected for one ingestion run (local uploads plus drive files)
MaxBatch == 2

-----------------------------------------------------------------------------
(* Python values *)

None == <<>>

Some(x) == <<x>>

\* Python truthiness of a list / string / optional
Truthy(x) == x /= <<>>

RECURSIVE Concat(_)
\* list.extend over a sequence of lists
Concat(ss) == IF ss = <<>> THEN <<>> ELSE Head(ss) \o Concat(Tail(ss))

\* true iff token t occurs in string s (Python `t in s` for a token t)
Contains(s, t) == \E i \in 1..Len(s) : s[i] = t

-----------------------------------------------------------------------------
(* File names: os.path.splitext and str.lower *)

\* str.lower on the tokens of a name
LowerTok(t) ==
    CASE t = "PDF" -> "pdf"
      [] t = "Txt" -> "txt"
      [] OTHER -> t

lower(s) == [i \in 1..Len(s) |-> LowerTok(s[i])]

\* str.rfind of a one-character token: the last index holding c, 0 when absent
rfind(p, c) ==
    IF \E i \in 1..Len(p) : p[i] = c
    THEN CHOOSE i \in 1..Len(p) : p[i] = c /\ \A j \in (i+1)..Len(p) : p[j] /= c
    ELSE 0

\* os.path.splitext(p)[1]: from the last dot, provided that dot follows the
\* last separator and a character other than a dot stands between the two
splitext_ext(p) ==
    LET sepIndex == rfind(p, "/")
        dotIndex == rfind(p, ".")
    IN  IF /\ dotIndex > sepIndex
           /\ \E j \in (sepIndex+1)..(dotIndex-1) : p[j] /= "."
        THEN SubSeq(p, dotIndex, Len(p))
        ELSE <<>>

-----------------------------------------------------------------------------
(* The files a user can select.  What a file holds, and so what its parser *)
(* does with it, is fixed per file; the drive a cloud file lives on too.   *)

\* the phrase get_model_response searches the formatted context for
NoRelPhrase == "No relevant documents found"

Files == {"fTxt", "fPdf", "fBad", "fEmpty", "fMd", "fCsv", "fDocx", "fSlash", "fXls"}

FileName(f) ==
    CASE f = "fTxt"    -> <<"a", ".", "txt">>
      [] f = "fPdf"    -> <<"b", ".", "PDF">>
      [] f = "fBad"    -> <<"bad", ".", "txt">>
      [] f = "fEmpty"  -> <<"e", ".", "Txt">>
      [] f = "fMd"     -> <<"c", ".", "md">>
      [] f = "fCsv"    -> <<"z", ".", "csv">>
      [] f = "fDocx"   -> <<"a", ".", "docx">>
      [] f = "fSlash"  -> <<"x", "/", "y", ".", "docx">>
      [] f = "fXls"    -> <<"f", ".", "xls">>

\* where the file can be selected: st.file_uploader accepts the extensions of
\* SUPPORTED_DOC_TYPES; a drive listing holds files of any name
FileSource(f) ==
    CASE f \in {"fTxt", "fPdf", "fBad", "fEmpty", "fMd", "fCsv"} -> "local"
      [] f \in {"fDocx", "fSlash"} -> "google"
      [] f \in {"fXls"} -> "onedrive"

\* open(temp_path, "wb") succeeds unless the name leads out of the fresh
\* temporary directory into a directory that does not exist
WriteOk(name) == ~Contains(name, "/")

\* whether the loader class of the file can be constructed (its optional
\* dependency is installed)
LoaderInitOk(f) == f /= "fMd"

\* the path the parsers record as source: the temporary file
TempPath(name) == <<"tmp", "/">> \o name

\* loader.load(): "raise" or the documents the parser extracts, with the
\* metadata the parser itself sets
ParserLoad(f) ==
    LET src == TempPath(FileName(f))
        Doc(text) == [page_content |-> text, metadata |-> [source |-> src]]
        Page(text, n) == [page_content |-> text, metadata |-> [source |-> src, page |-> n]]
    IN  CASE f = "fTxt"    -> [raised |-> FALSE, docs |-> <<Doc(<<"alpha">>)>>]
          [] f = "fPdf"    -> [raised |-> FALSE,
                               docs |-> <<Page(<<"beta">>, 0), Page(<<"gamma", " ", "delta">>, 1)>>]
          [] f = "fBad"    -> [raised |-> TRUE, docs |-> <<>>]
          [] f = "fEmpty"  -> [raised |-> FALSE, docs |-> <<Doc(<<>>)>>]
          [] f = "fCsv"    -> [raised |-> FALSE, docs |-> <<>>]
          [] f = "fXls"    -> [raised |-> FALSE, docs |-> <<Doc(<<" ", NoRelPhrase, " ", "in", " ", "sheet", " ">>)>>]
          [] OTHER         -> [raised |-> TRUE, docs |-> <<>>]

-----------------------------------------------------------------------------
(* rag_utils.load_document *)

Msg(kind, name) == [kind |-> kind, file |-> name]

\* what the text of each message interpolates, and what that value is; a
\* text without braces interpolates nothing
Interpolated(kind) ==
    CASE kind = "unsupported_type" -> {<<"file_extension", "extension">>, <<"uploaded_file.name", "file name">>}
      [] kind = "load_failed" -> {<<"uploaded_file.name", "file name">>, <<"e", "exception">>}
      [] kind = "loader_init_error" -> {<<"e", "exception">>}
      [] kind = "download_failed" -> {<<"file_name", "file name">>, <<"source", "drive">>, <<"error_msg", "exception">>}
      [] kind = "embeddings_init_failed" -> {<<"e", "exception">>}
      [] kind = "vector_store_failed" -> {<<"e", "exception">>}
      [] kind = "success_indexed" -> {<<"len(processed_files_info)", "number of files processed">>}
      [] OTHER -> {}

ExtPdf == <<".", "pdf">>

ExtTxt == <<".", "txt">>

ExtMd == <<".", "md">>

ExtCsv == <<".", "csv">>

ExtXlsx == <<".", "xlsx">>

ExtXls == <<".", "xls">>

\* the if / elif chain on file_extension: the loader class, "none" for the else
SelectLoader(file_extension) ==
    CASE file_extension = ExtPdf -> "PyPDFLoader"
      [] file_extension = ExtTxt -> "TextLoader"
      [] file_extension = ExtMd -> "UnstructuredMarkdownLoader"
      [] file_extension = ExtCsv -> "CSVLoader"
      [] file_extension \in {ExtXlsx, ExtXls} -> "UnstructuredExcelLoader"
      [] OTHER -> "none"

\* file_extension = os.path.splitext(uploaded_file.name)[1].lower()
FileExtension(name) == lower(splitext_ext(name))

\* variant: the source is set only where the parser gave none
StampSourceWhereMissing(docs, name) ==
    [i \in 1..Len(docs) |->
        [docs[i] EXCEPT !.metadata =
            [k \in DOMAIN docs[i].metadata \cup {"source"} |->
                IF k \in DOMAIN docs[i].metadata THEN docs[i].metadata[k] ELSE name]]]

\* for doc in docs: doc.metadata["source"] = uploaded_file.name
StampSource(docs, name) ==
    [i \in 1..Len(docs) |->
        [docs[i] EXCEPT !.metadata =
            [k \in DOMAIN docs[i].metadata \cup {"source"} |->
                IF k = "source" THEN name ELSE docs[i].metadata[k]]]]

\* variant: the cleanup is the last statement of the try body, which the
\* early returns skip
load_document_CleanupAfterLoad(f) ==
    LET name == FileName(f)
        loader == SelectLoader(FileExtension(name))
        failed == [ret |-> None, loader |-> "none", ui |-> {Msg("load_failed", name)},
                   temp_dir_removed |-> TRUE]
    IN  IF ~WriteOk(name) THEN failed
        ELSE IF loader = "none"
             THEN [ret |-> None, loader |-> "none", ui |-> {Msg("unsupported_type", name)},
                   temp_dir_removed |-> FALSE]
        ELSE IF ~LoaderInitOk(f)
             THEN IF loader \in {"PyPDFLoader", "TextLoader"}
                  THEN [failed EXCEPT !.loader = loader]
                  ELSE [ret |-> None, loader |-> loader, ui |-> {Msg("loader_init_error", <<>>)},
                        temp_dir_removed |-> FALSE]
        ELSE IF ParserLoad(f).raised
             THEN [failed EXCEPT !.loader = loader]
        ELSE [ret |-> Some(StampSource(ParserLoad(f).docs, name)), loader |-> loader,
              ui |-> {}, temp_dir_removed |-> TRUE]

\* The result of load_document(uploaded_file): ret is None or Some(list of
\* documents), loader the class the dispatch chose, ui the messages shown,
\* temp_dir_removed whether temp_dir.cleanup() ran.
load_document(f) ==
    LET name == FileName(f)
        loader == SelectLoader(FileExtension(name))
        failed == [ret |-> None, loader |-> "none", ui |-> {Msg("load_failed", name)},
                   temp_dir_removed |-> TRUE]
    IN  IF ~WriteOk(name) THEN failed
        ELSE IF loader = "none"
             THEN [ret |-> None, loader |-> "none", ui |-> {Msg("unsupported_type", name)},
                   temp_dir_removed |-> TRUE]
        ELSE IF ~LoaderInitOk(f)
             THEN IF loader \in {"PyPDFLoader", "TextLoader"}
                  THEN [failed EXCEPT !.loader = loader]
                  ELSE [ret |-> None, loader |-> loader, ui |-> {Msg("loader_init_error", <<>>)},
                        temp_dir_removed |-> TRUE]
        ELSE IF ParserLoad(f).raised
             THEN [failed EXCEPT !.loader = loader]
        ELSE [ret |-> Some(StampSource(ParserLoad(f).docs, name)), loader |-> loader,
              ui |-> {}, temp_dir_removed |-> TRUE]

-----------------------------------------------------------------------------
(* rag_utils.split_documents *)

CHUNK_SIZE == 1000

CHUNK_OVERLAP == 150

IsSpace(t) == t \in {" ", "\n", "\n\n"}

RECURSIVE TextLen(_)
\* len(text): the characters of its tokens
TextLen(text) == IF text = <<>> THEN 0 ELSE Len(Head(text)) + TextLen(Tail(text))

RECURSIVE lstrip(_)
lstrip(text) ==
    IF text /= <<>> /\ IsSpace(Head(text)) THEN lstrip(Tail(text)) ELSE text

RECURSIVE rstrip(_)
rstrip(text) ==
    IF text /= <<>> /\ IsSpace(text[Len(text)])
    THEN rstrip(SubSeq(text, 1, Len(text) - 1))
    ELSE text

strip(text) == rstrip(lstrip(text))

\* the separators of RecursiveCharacterTextSplitter, tried in this order: a
\* blank line, a newline, a space, and the empty separator that cuts between
\* any two characters (here between any two tokens: the model has no run of
\* CHUNK_SIZE characters without white space)
Separators == << <<"\n", "\n">>, <<"\n">>, <<" ">>, <<>> >>

RECURSIVE Occurrences(_, _, _)
\* where re.split finds the separator in text[from..]: leftmost, not overlapping
Occurrences(text, separator, from) ==
    IF from + Len(separator) - 1 > Len(text) THEN {}
    ELSE IF SubSeq(text, from, from + Len(separator) - 1) = separator
         THEN {from} \cup Occurrences(text, separator, from + Len(separator))
         ELSE Occurrences(text, separator, from + 1)

\* _split_text_with_regex(text, separator, keep_separator=True): the text cut
\* in front of every separator, which stays at the head of the piece it
\* begins; list(text) for the empty separator; empty pieces are dropped
split_text_with_regex(text, separator) ==
    LET starts == IF separator = <<>> THEN 1..Len(text)
                  ELSE IF text = <<>> THEN {} ELSE {1} \cup Occurrences(text, separator, 1)
        end(a) == IF \E b \in starts : b > a
                  THEN (CHOOSE b \in starts : b > a /\ \A c \in starts : c > a => b <= c) - 1
                  ELSE Len(text)
        nth(r) == CHOOSE a \in starts : Cardinality({b \in starts : b < a}) = r - 1
    IN  [r \in 1..Cardinality(starts) |-> SubSeq(text, nth(r), end(nth(r)))]

\* variant: only the last piece of a chunk is kept
join_docs_LastPiece(docs) ==
    IF strip(docs[Len(docs)]) = <<>> THEN None ELSE Some(strip(docs[Len(docs)]))

\* _join_docs(docs, ""): the pieces joined and stripped, None when empty
join_docs(docs) ==
    IF strip(Concat(docs)) = <<>> THEN None ELSE Some(strip(Concat(docs)))

RECURSIVE PopFrontForRoomOnly(_, _, _)
\* variant: pieces leave the front only to make room for the next piece
PopFrontForRoomOnly(current_doc, total, len) ==
    IF total + len > CHUNK_SIZE /\ total > 0
    THEN PopFrontForRoomOnly(Tail(current_doc), total - TextLen(Head(current_doc)), len)
    ELSE [current_doc |-> current_doc, total |-> total]

RECURSIVE PopFront(_, _, _)
\* the while loop of _merge_splits: pieces leave the front of current_doc
\* until what is kept is no longer than the overlap and leaves room for the
\* next piece
PopFront(current_doc, total, len) ==
    IF total > CHUNK_OVERLAP \/ (total + len > CHUNK_SIZE /\ total > 0)
    THEN PopFront(Tail(current_doc), total - TextLen(Head(current_doc)), len)
    ELSE [current_doc |-> current_doc, total |-> total]

RECURSIVE MergeFrom(_, _, _, _, _)
\* the for loop of _merge_splits from piece i on
MergeFrom(splits, i, docs, current_doc, total) ==
    IF i > Len(splits) THEN docs \o join_docs(current_doc)
    ELSE LET len == TextLen(splits[i])
             full == total + len > CHUNK_SIZE /\ current_doc /= <<>>
             kept == IF full THEN PopFront(current_doc, total, len)
                     ELSE [current_doc |-> current_doc, total |-> total]
         IN  MergeFrom(splits, i + 1,
                       IF full THEN docs \o join_docs(current_doc) ELSE docs,
                       Append(kept.current_doc, splits[i]), kept.total + len)

\* variant: every piece goes into one chunk, whatever its size
merge_splits_Unbounded(splits) == join_docs(splits)

\* _merge_splits(splits, ""): pieces packed into chunks of at most CHUNK_SIZE
\* characters, a chunk starting with the tail of the one before it
merge_splits(splits) == MergeFrom(splits, 1, <<>>, <<>>, 0)

RECURSIVE split_text_with(_, _)
\* _split_text(text, separators): cut at the first separator the text holds;
\* pieces shorter than the chunk size are merged, a longer one is cut again
\* with the separators that remain
split_text_with(text, separators) ==
    LET found == {i \in 1..Len(separators) :
                     separators[i] = <<>> \/ Occurrences(text, separators[i], 1) /= {}}
        first == IF found = {} THEN Len(separators)
                 ELSE CHOOSE i \in found : \A j \in found : i <= j
        separator == separators[first]
        new_separators == IF found = {} \/ separator = <<>> THEN <<>>
                          ELSE SubSeq(separators, first + 1, Len(separators))
        splits == split_text_with_regex(text, separator)
        merged(good_splits) == IF good_splits = <<>> THEN <<>> ELSE merge_splits(good_splits)
        RECURSIVE Walk(_, _, _)
        Walk(i, good_splits, final_chunks) ==
            IF i > Len(splits) THEN final_chunks \o merged(good_splits)
            ELSE IF TextLen(splits[i]) < CHUNK_SIZE
                 THEN Walk(i + 1, Append(good_splits, splits[i]), final_chunks)
                 ELSE Walk(i + 1, <<>>,
                           final_chunks \o merged(good_splits)
                               \o (IF new_separators = <<>> THEN <<splits[i]>>
                                   ELSE split_text_with(splits[i], new_separators)))
    IN  Walk(1, <<>>, <<>>)

\* RecursiveCharacterTextSplitter(chunk_size=CHUNK_SIZE,
\* chunk_overlap=CHUNK_OVERLAP, length_function=len).split_text
split_text(text) == split_text_with(text, Separators)

\* variant: the position is counted in the text without its leading white space
Find_AfterStrip(text, chunk, from) ==
    LET at(a) == TextLen(SubSeq(lstrip(text), 1, a - 1))
        hits == {a \in 1..(Len(lstrip(text)) - Len(chunk) + 1) :
                    at(a) >= from /\ SubSeq(lstrip(text), a, a + Len(chunk) - 1) = chunk}
    IN  IF hits = {} THEN -1 ELSE at(CHOOSE a \in hits : \A b \in hits : a <= b)

\* text.find(chunk, from), in characters from 0; -1 when the chunk is not found
Find(text, chunk, from) ==
    LET at(a) == TextLen(SubSeq(text, 1, a - 1))
        hits == {a \in 1..(Len(text) - Len(chunk) + 1) :
                    at(a) >= from /\ SubSeq(text, a, a + Len(chunk) - 1) = chunk}
    IN  IF hits = {} THEN -1 ELSE at(CHOOSE a \in hits : \A b \in hits : a <= b)

RECURSIVE StartIndexes(_, _, _, _, _)
\* create_documents with add_start_index=True: each chunk is looked up in the
\* text from the place where the overlap with the chunk before it can begin
StartIndexes(text, pieces, i, index, previous_chunk_len) ==
    IF i > Len(pieces) THEN <<>>
    ELSE LET offset == index + previous_chunk_len - CHUNK_OVERLAP
             found == Find(text, pieces[i], IF offset > 0 THEN offset ELSE 0)
         IN  <<found>> \o StartIndexes(text, pieces, i + 1, found, TextLen(pieces[i]))

\* the chunks of one document: the metadata is copied and start_index added
SplitOne(doc) ==
    LET pieces == split_text(doc.page_content)
        starts == StartIndexes(doc.page_content, pieces, 1, 0, 0)
    IN  [i \in 1..Len(pieces) |->
            [page_content |-> pieces[i],
             metadata |-> [k \in DOMAIN doc.metadata \cup {"start_index"} |->
                              IF k = "start_index" THEN starts[i] ELSE doc.metadata[k]]]]

\* words without white space: A and B of 400 characters, C of 450, D and E
\* of 100, F of 198
Word(w) ==
    CASE w = "A" -> "aaaaaaaaaaaaaaaaaaaaaaaaaaaaaaaaaaaaaaaaaaaaaaaaaaaaaaaaaaaaaaaaaaaaaaaaaaaaaaaaaaaaaaaaaaaaaaaaaaaaaaaaaaaaaaaaaaaaaaaaaaaaaaaaaaaaaaaaaaaaaaaaaaaaaaaaaaaaaaaaaaaaaaaaaaaaaaaaaaaaaaaaaaaaaaaaaaaaaaaaaaaaaaaaaaaaaaaaaaaaaaaaaaaaaaaaaaaaaaaaaaaaaaaaaaaaaaaaaaaaaaaaaaaaaaaaaaaaaaaaaaaaaaaaaaaaaaaaaaaaaaaaaaaaaaaaaaaaaaaaaaaaaaaaaaaaaaaaaaaaaaaaaaaaaaaaaaaaaaaaaaaaaaaaaaaaaaaaaaaaaaaaaaaaaaaaaaaaaaaa"
      [] w = "B" -> "bbbbbbbbbbbbbbbbbbbbbbbbbbbbbbbbbbbbbbbbbbbbbbbbbbbbbbbbbbbbbbbbbbbbbbbbbbbbbbbbbbbbbbbbbbbbbbbbbbbbbbbbbbbbbbbbbbbbbbbbbbbbbbbbbbbbbbbbbbbbbbbbbbbbbbbbbbbbbbbbbbbbbbbbbbbbbbbbbbbbbbbbbbbbbbbbbbbbbbbbbbbbbbbbbbbbbbbbbbbbbbbbbbbbbbbbbbbbbbbbbbbbbbbbbbbbbbbbbbbbbbbbbbbbbbbbbbbbbbbbbbbbbbbbbbbbbbbbbbbbbbbbbbbbbbbbbbbbbbbbbbbbbbbbbbbbbbbbbbbbbbbbbbbbbbbbbbbbbbbbbbbbbbbbbbbbbbbbbbbbbbbbbbbbbbbbbbbbbbbb"
      [] w = "C" -> "cccccccccccccccccccccccccccccccccccccccccccccccccccccccccccccccccccccccccccccccccccccccccccccccccccccccccccccccccccccccccccccccccccccccccccccccccccccccccccccccccccccccccccccccccccccccccccccccccccccccccccccccccccccccccccccccccccccccccccccccccccccccccccccccccccccccccccccccccccccccccccccccccccccccccccccccccccccccccccccccccccccccccccccccccccccccccccccccccccccccccccccccccccccccccccccccccccccccccccccccccccccccccccccccccccccccccccccccccccccccccccccccccc"
      [] w = "D" -> "dddddddddddddddddddddddddddddddddddddddddddddddddddddddddddddddddddddddddddddddddddddddddddddddddddd"
      [] w = "E" -> "eeeeeeeeeeeeeeeeeeeeeeeeeeeeeeeeeeeeeeeeeeeeeeeeeeeeeeeeeeeeeeeeeeeeeeeeeeeeeeeeeeeeeeeeeeeeeeeeeeee"
      [] w = "F" -> "ffffffffffffffffffffffffffffffffffffffffffffffffffffffffffffffffffffffffffffffffffffffffffffffffffffffffffffffffffffffffffffffffffffffffffffffffffffffffffffffffffffffffffffffffffffffffffffffffffffff"

\* documents long enough to be cut, at blank lines, newlines and spaces, and
\* short ones with white space at their ends
SampleDocuments ==
    {[page_content |-> text, metadata |-> [source |-> <<"a", ".", "txt">>]] :
        text \in {<<>>,
                  <<" ", "\n">>,
                  <<" ", Word("D"), " ">>,
                  <<Word("D"), " ", Word("D"), " ", Word("D")>>,
                  <<Word("A"), " ", Word("B"), " ", Word("F")>>,
                  <<Word("A"), " ", Word("B"), " ", Word("C")>>,
                  <<Word("A"), " ", Word("B"), " ", Word("D"), " ", Word("E"), " ", Word("C")>>,
                  <<Word("A"), "\n", Word("B"), "\n", Word("C")>>,
                  <<Word("A"), " ", Word("B"), " ", Word("C"), "\n", "\n", Word("D")>>}}
    \cup {[page_content |-> <<Word("A"), "\n", "\n", Word("B"), " ", Word("C"), "\n", "\n", Word("D")>>,
           metadata |-> [source |-> <<"b", ".", "PDF">>, page |-> 0]]}

\* every document load_document can return, and the sample documents
KnownDocuments ==
    UNION {{StampSource(ParserLoad(f).docs, FileName(f))[i] : i \in 1..Len(ParserLoad(f).docs)} : f \in Files}
        \cup SampleDocuments

\* the chunks of each document, computed once
SplitTable == [doc \in KnownDocuments |-> SplitOne(doc)]

split_documents(documents) ==
    IF ~Truthy(documents) THEN <<>>
    ELSE Concat([i \in 1..Len(documents) |-> SplitTable[documents[i]]])

-----------------------------------------------------------------------------
(* rag_utils.get_openai_embeddings, create_vector_store *)

\* What the embedding service does during one ingestion run.
EmbedEnvs == [probe_ok : BOOLEAN, build_ok : BOOLEAN]

\* variant: the client is built and probed before the key is looked at
get_openai_embeddings_ProbeFirst(key, env) ==
    IF ~env.probe_ok \/ ~Truthy(key)
    THEN [embeddings |-> None,
          ui |-> {Msg(IF Truthy(key) THEN "embeddings_init_failed" ELSE "openai_key_missing",
                      <<>>)},
          client_built |-> TRUE, probe_calls |-> 1]
    ELSE [embeddings |-> Some("OpenAIEmbeddings"), ui |-> {},
          client_built |-> TRUE, probe_calls |-> 1]

\* get_openai_embeddings(): the credential check, then the client and one
\* probe call embed_query("test")
get_openai_embeddings(key, env) ==
    IF ~Truthy(key)
    THEN [embeddings |-> None, ui |-> {Msg("openai_key_missing", <<>>)},
          client_built |-> FALSE, probe_calls |-> 0]
    ELSE IF ~env.probe_ok
    THEN [embeddings |-> None, ui |-> {Msg("embeddings_init_failed", <<>>)},
          client_built |-> TRUE, probe_calls |-> 1]
    ELSE [embeddings |-> Some("OpenAIEmbeddings"), ui |-> {},
          client_built |-> TRUE, probe_calls |-> 1]

\* FAISS.from_documents(chunks, embeddings): the index holds the chunks in
\* insertion order (their vectors are Embed of their text)
FAISS_from_documents(chunks) == [docs |-> chunks]

\* variant: the index is built whether or not get_openai_embeddings returned
\* a client
create_vector_store_IgnoresProbe(chunks, key, env) ==
    IF ~Truthy(chunks)
    THEN [ret |-> None, ui |-> {Msg("no_chunks_to_index", <<>>)}, failure |-> "empty",
          client_built |-> FALSE, probe_calls |-> 0, batch_embed_calls |-> 0]
    ELSE LET e == get_openai_embeddings(key, env)
         IN  IF ~env.build_ok
             THEN [ret |-> None, ui |-> e.ui \cup {Msg("vector_store_failed", <<>>)},
                   failure |-> IF Truthy(e.embeddings) THEN "build"
                               ELSE IF Truthy(key) THEN "probe" ELSE "credential",
                   client_built |-> e.client_built,
                   probe_calls |-> e.probe_calls, batch_embed_calls |-> 1]
             ELSE [ret |-> Some(FAISS_from_documents(chunks)), ui |-> e.ui,
                   failure |-> IF Truthy(e.embeddings) THEN "none"
                               ELSE IF Truthy(key) THEN "probe" ELSE "credential",
                   client_built |-> e.client_built,
                   probe_calls |-> e.probe_calls, batch_embed_calls |-> 1]

\* create_vector_store(chunks): ret is None or Some(index); failure names the
\* stage that failed ("none" on success)
create_vector_store(chunks, key, env) ==
    IF ~Truthy(chunks)
    THEN [ret |-> None, ui |-> {Msg("no_chunks_to_index", <<>>)}, failure |-> "empty",
          client_built |-> FALSE, probe_calls |-> 0, batch_embed_calls |-> 0]
    ELSE LET e == get_openai_embeddings(key, env)
         IN  IF ~Truthy(e.embeddings)
             THEN [ret |-> None, ui |-> e.ui,
                   failure |-> IF Truthy(key) THEN "probe" ELSE "credential",
                   client_built |-> e.client_built,
                   probe_calls |-> e.probe_calls, batch_embed_calls |-> 0]
             ELSE IF ~env.build_ok
             THEN [ret |-> None, ui |-> {Msg("vector_store_failed", <<>>)},
                   failure |-> "build",
                   client_built |-> e.client_built,
                   probe_calls |-> e.probe_calls, batch_embed_calls |-> 1]
             ELSE [ret |-> Some(FAISS_from_documents(chunks)), ui |-> {},
                   failure |-> "none",
                   client_built |-> e.client_built,
                   probe_calls |-> e.probe_calls, batch_embed_calls |-> 1]

-----------------------------------------------------------------------------
(* rag_utils.get_retriever and the index's nearest-neighbour search *)

\* the retriever's default fan-out: get_retriever(vector_store, k=4)
DEFAULT_K == 4

\* the embedding service, as a fixed map from a text to a point on a line
TokVec(t) ==
    CASE t = "alpha" -> 1
      [] t = "beta" -> 3
      [] t = "gamma" -> 2
      [] t = "delta" -> 3
      [] t = "sheet" -> 7
      [] OTHER -> 0

RECURSIVE Embed(_)
Embed(text) == IF text = <<>> THEN 0 ELSE TokVec(Head(text)) + Embed(Tail(text))

\* squared Euclidean distance, the metric of the flat FAISS index
Distance(a, b) == (a - b) * (a - b)

\* variant: every stored chunk is returned, whatever k is
similarity_search_Uncut(store, query, k) ==
    LET n == Len(store.docs)
        d(i) == Distance(Embed(store.docs[i].page_content), Embed(query))
        before(j, i) == d(j) < d(i) \/ (d(j) = d(i) /\ j < i)
        rank(i) == Cardinality({j \in 1..n : before(j, i)}) + 1
    IN  [r \in 1..n |-> store.docs[CHOOSE i \in 1..n : rank(i) = r]]

\* variant: among chunks at the same distance the later-inserted comes first
similarity_search_LaterFirst(store, query, k) ==
    LET n == Len(store.docs)
        d(i) == Distance(Embed(store.docs[i].page_content), Embed(query))
        before(j, i) == d(j) < d(i) \/ (d(j) = d(i) /\ j > i)
        rank(i) == Cardinality({j \in 1..n : before(j, i)}) + 1
        size == IF k < n THEN k ELSE n
    IN  [r \in 1..size |-> store.docs[CHOOSE i \in 1..n : rank(i) = r]]

\* vector_store.similarity_search(query, k): the k stored chunks nearest to
\* the query, nearest first, the earlier-inserted chunk first among equals
similarity_search(store, query, k) ==
    LET n == Len(store.docs)
        d(i) == Distance(Embed(store.docs[i].page_content), Embed(query))
        before(j, i) == d(j) < d(i) \/ (d(j) = d(i) /\ j < i)
        rank(i) == Cardinality({j \in 1..n : before(j, i)}) + 1
        size == IF k < n THEN k ELSE n
    IN  [r \in 1..size |-> store.docs[CHOOSE i \in 1..n : rank(i) = r]]

\* get_retriever(vector_store, k=4): None without an index
get_retriever(store) == IF ~Truthy(store) THEN None ELSE Some([store |-> store[1], k |-> DEFAULT_K])

\* the texts a user asks about
QueryTexts == {<<"alpha">>, <<"gamma", "?">>, <<"sheet">>}

-----------------------------------------------------------------------------
(* rag_utils.format_retrieved_docs *)

RECURSIVE Join(_, _)
\* sep.join(parts) on strings
Join(parts, sep) ==
    IF parts = <<>> THEN <<>>
    ELSE IF Len(parts) = 1 THEN Head(parts)
    ELSE Head(parts) \o <<sep>> \o Join(Tail(parts), sep)

\* "No relevant documents found in the local index."
NoDocsSentence == <<NoRelPhrase, " in the local index.">>

RetrievedContextStart == "--- Retrieved Context From Your Documents ---"

RetrievedContextEnd == "--- End Retrieved Context ---"

\* doc.metadata.get(key, default)
metadata_get(metadata, key, default) ==
    IF key \in DOMAIN metadata THEN metadata[key] ELSE default

\* f" (Source: {source}{f', Page: {page + 1}' if page is not None else ''})"
Location(doc) ==
    <<" (Source: ">> \o metadata_get(doc.metadata, "source", <<"Unknown source">>)
        \o (IF "page" \in DOMAIN doc.metadata
            THEN <<", Page: ", ToString(doc.metadata.page + 1)>>
            ELSE <<>>)
        \o <<")">>

\* variant: the entry numbered with the 0-based position
ChunkEntryZeroBased(i, doc) ==
    <<"Chunk ", ToString(i)>> \o Location(doc) \o <<":", "\n">> \o doc.page_content

\* f"Chunk {i+1}{location}:\n{doc.page_content}", i the 0-based position
ChunkEntry(i, doc) ==
    <<"Chunk ", ToString(i + 1)>> \o Location(doc) \o <<":", "\n">> \o doc.page_content

\* variant: no test for an empty result, which then yields the two delimiters
format_retrieved_docs_EmptyBlock(docs) ==
    Join(<< <<RetrievedContextStart>> >>
            \o Concat([i \in 1..Len(docs) |-> << ChunkEntry(i - 1, docs[i]), <<"---">> >>])
            \o << <<RetrievedContextEnd>> >>,
         "\n")

format_retrieved_docs(docs) ==
    IF ~Truthy(docs) THEN NoDocsSentence
    ELSE Join(<< <<RetrievedContextStart>> >>
                 \o Concat([i \in 1..Len(docs) |-> << ChunkEntry(i - 1, docs[i]), <<"---">> >>])
                 \o << <<RetrievedContextEnd>> >>,
              "\n")

-----------------------------------------------------------------------------
(* helpers.create_personality_profile, helpers.format_message *)

\* str.capitalize on a trait name
Capitalize(trait) ==
    CASE trait = "openness" -> "Openness"
      [] trait = "conscientiousness" -> "Conscientiousness"
      [] trait = "extraversion" -> "Extraversion"
      [] trait = "agreeableness" -> "Agreeableness"
      [] trait = "neuroticism" -> "Neuroticism"
      [] OTHER -> trait

TraitLevel(value) == IF value < 33 THEN "low" ELSE IF value < 66 THEN "moderate" ELSE "high"

\* big_five is the sequence of the dict's items, <<trait, value>> each
create_personality_profile(mbti, big_five, use_mbti, use_big_five) ==
    Join((IF use_mbti /\ Truthy(mbti) THEN << <<"MBTI Type: ", mbti[1]>> >> ELSE <<>>)
            \o (IF use_big_five /\ Truthy(big_five)
                THEN << <<"Big Five Personality Traits:">> >>
                        \o [i \in 1..Len(big_five) |->
                              <<"- ", Capitalize(big_five[i][1]), ": ",
                                TraitLevel(big_five[i][2]),
                                " (", ToString(big_five[i][2]), "%)">>]
                ELSE <<>>),
         "\n")

\* the message dictionary, without its timestamp; model_name is a key only
\* when a name is given
format_message(role, content, model_name) ==
    IF Truthy(model_name)
    THEN [role |-> role, content |-> content, model_name |-> model_name[1]]
    ELSE [role |-> role, content |-> content]

-----------------------------------------------------------------------------
(* app.py: get_model_response *)

AVAILABLE_MODELS == {"gpt-4o", "gpt-4o-mini"}

\* the fine-tuned model of the catalogue; its API name is of no concern here
AVAILABLE_FINE_TUNED_MODELS == {"ProjectPathLM-v0"}

\* the triple-quoted prompt of the model: it starts and ends with a newline
FINE_TUNED_PROMPTS(model) ==
    <<"\n", "You are ProjectPathLM-v0, a fine-tuned model ...", "\n">>

BaseInstruction ==
    <<"You are a helpful project management assistant. Respond clearly and concisely.">>

RagHeader == "=== Context from Your Documents (RAG) ==="

RagFooter == "=========================================="

\* what one call meets outside the program: whether embedding the query (and
\* so rag_retriever.invoke) raises, and how the chat completion request ends
\* (the except clauses of step 8 differ only in the text they return and show)
CallEnvs == [retrieval_raises : BOOLEAN, api : {"ok", "AuthenticationError"}]

\* next((m['content'] for m in reversed(messages) if m['role'] == 'user'), None)
last_user_msg(messages) ==
    LET users == {i \in 1..Len(messages) : messages[i].role = "user"}
    IN  IF users = {} THEN None
        ELSE messages[CHOOSE i \in users : \A j \in users : j <= i].content

\* rag_retriever.invoke(user_query)
retriever_invoke(rag_retriever, user_query) ==
    similarity_search(rag_retriever[1].store, user_query, rag_retriever[1].k)

\* variant: step 3 without its inner try, a raise of the retriever leaves it
RetrieveContextUncaught(rag_retriever, use_rag, user_query, env) ==
    IF use_rag /\ Truthy(rag_retriever) /\ Truthy(user_query)
    THEN IF env.retrieval_raises
         THEN [parts |-> <<>>, ui |-> {}, invoked |-> TRUE, raised |-> TRUE]
         ELSE LET retrieved_docs == retriever_invoke(rag_retriever, user_query)
                  rag_context_str == format_retrieved_docs(retrieved_docs)
              IN  [parts |-> IF Truthy(retrieved_docs) /\ Truthy(rag_context_str)
                                  /\ ~Contains(rag_context_str, NoRelPhrase)
                             THEN << <<RagHeader>>, rag_context_str, <<RagFooter>> >>
                             ELSE <<>>,
                   ui |-> {}, invoked |-> TRUE, raised |-> FALSE]
    ELSE [parts |-> <<>>, ui |-> {}, invoked |-> FALSE, raised |-> FALSE]

\* step 3, "Add RAG Context": the parts it appends to system_prompt_parts,
\* the warning it shows, whether the retriever was invoked, and whether an
\* exception leaves the step (the inner except catches the retriever's)
RetrieveContext(rag_retriever, use_rag, user_query, env) ==
    IF use_rag /\ Truthy(rag_retriever) /\ Truthy(user_query)
    THEN IF env.retrieval_raises
         THEN [parts |-> <<>>, ui |-> {"could_not_retrieve_rag_context"},
               invoked |-> TRUE, raised |-> FALSE]
         ELSE LET retrieved_docs == retriever_invoke(rag_retriever, user_query)
                  rag_context_str == format_retrieved_docs(retrieved_docs)
              IN  [parts |-> IF Truthy(retrieved_docs) /\ Truthy(rag_context_str)
                                  /\ ~Contains(rag_context_str, NoRelPhrase)
                             THEN << <<RagHeader>>, rag_context_str, <<RagFooter>> >>
                             ELSE <<>>,
                   ui |-> {}, invoked |-> TRUE, raised |-> FALSE]
    ELSE [parts |-> <<>>, ui |-> {}, invoked |-> FALSE, raised |-> FALSE]

\* step 4, "Add Jira Project Context"
JiraParts(jira_context, use_jira_context) ==
    IF use_jira_context /\ Truthy(jira_context)
    THEN << <<"=== Context from Jira ===">>, jira_context, <<"=========================">> >>
    ELSE <<>>

\* step 5, "Add Personality Profile"
PersonalityParts(personality_description) ==
    IF Truthy(personality_description)
    THEN << <<"=== Your Personality Profile (Adapt response style) ===">>,
            personality_description,
            <<"=====================================================">> >>
    ELSE <<>>

\* step 6, "Add Base Instructions / Fine-Tuning Prompt"
InstructionParts(model) ==
    IF model \in AVAILABLE_FINE_TUNED_MODELS
    THEN << <<"=== Model Instructions ===">>, FINE_TUNED_PROMPTS(model),
            <<"==========================">> >>
    ELSE IF model \in AVAILABLE_MODELS THEN <<BaseInstruction>>
    ELSE <<>>

\* "\n\n".join(filter(None, system_prompt_parts)).strip()
JoinSystemPrompt(system_prompt_parts) ==
    strip(Join(SelectSeq(system_prompt_parts, Truthy), "\n\n"))

\* step 7, "Prepare messages for API call": the system message, then the
\* history (every message of the session has role user or assistant, so the
\* filter keeps all of them and the "ensure last is user" append never applies)
ApiMessages(system_prompt, messages) ==
    LET history_for_api == [i \in 1..Len(messages) |->
                               [role |-> messages[i].role, content |-> messages[i].content]]
    IN  (IF Truthy(system_prompt)
         THEN <<[role |-> "system", content |-> system_prompt]>> ELSE <<>>)
        \o history_for_api

\* step 8, "Make API call": the content returned and the message shown
ApiCall(env) ==
    CASE env.api = "ok" -> [ret |-> <<"answer">>, ui |-> {}]
      [] env.api = "AuthenticationError" ->
            [ret |-> <<"Error: OpenAI Authentication failed.">>,
             ui |-> {"openai_authentication_failed"}]

\* variant: step 4 before step 3, the Jira section ahead of the documents
get_model_response_JiraFirst(messages, model, mbti, big_five, use_mbti, use_big_five, jira_context, use_jira_context, rag_retriever, use_rag, user_query, openai_api_key, env) ==
    LET query == IF ~Truthy(user_query) /\ Truthy(messages)
                    /\ Truthy(last_user_msg(messages))
                 THEN last_user_msg(messages) ELSE user_query
        rag == RetrieveContext(rag_retriever, use_rag, query, env)
        system_prompt_parts ==
            JiraParts(jira_context, use_jira_context)
              \o rag.parts
              \o PersonalityParts(create_personality_profile(mbti, big_five,
                                                             use_mbti, use_big_five))
              \o InstructionParts(model)
        system_prompt == JoinSystemPrompt(system_prompt_parts)
        api_messages == ApiMessages(system_prompt, messages)
        call == ApiCall(env)
    IN  IF ~Truthy(openai_api_key)
        THEN [ret |-> <<"Error: Please enter your OpenAI API key in the sidebar.">>,
              system_prompt |-> None, api_called |-> FALSE, api_messages |-> <<>>,
              ui |-> {}, retriever_invoked |-> FALSE]
        ELSE IF rag.raised
        THEN [ret |-> <<"Error setting up request: ", "boom">>,
              system_prompt |-> None, api_called |-> FALSE, api_messages |-> <<>>,
              ui |-> {"failed_to_prepare_request"}, retriever_invoked |-> rag.invoked]
        ELSE IF \A i \in 1..Len(api_messages) : api_messages[i].role /= "user"
        THEN [ret |-> <<"Error: Cannot generate response without user input in the conversation.">>,
              system_prompt |-> Some(system_prompt), api_called |-> FALSE,
              api_messages |-> <<>>, ui |-> rag.ui, retriever_invoked |-> rag.invoked]
        ELSE [ret |-> call.ret, system_prompt |-> Some(system_prompt),
              api_called |-> TRUE, api_messages |-> api_messages,
              ui |-> rag.ui \cup call.ui, retriever_invoked |-> rag.invoked]

\* The result of one call: ret and system_prompt are the pair returned
\* (system_prompt None or Some(string)), api_messages what was sent to the chat
\* model when api_called, ui the messages shown, retriever_invoked whether
\* rag_retriever.invoke ran.
get_model_response(messages, model, mbti, big_five, use_mbti, use_big_five, jira_context, use_jira_context, rag_retriever, use_rag, user_query, openai_api_key, env) ==
    LET query == IF ~Truthy(user_query) /\ Truthy(messages)
                    /\ Truthy(last_user_msg(messages))
                 THEN last_user_msg(messages) ELSE user_query
        rag == RetrieveContext(rag_retriever, use_rag, query, env)
        system_prompt_parts ==
            rag.parts
              \o JiraParts(jira_context, use_jira_context)
              \o PersonalityParts(create_personality_profile(mbti, big_five,
                                                             use_mbti, use_big_five))
              \o InstructionParts(model)
        system_prompt == JoinSystemPrompt(system_prompt_parts)
        api_messages == ApiMessages(system_prompt, messages)
        call == ApiCall(env)
    IN  IF ~Truthy(openai_api_key)
        THEN [ret |-> <<"Error: Please enter your OpenAI API key in the sidebar.">>,
              system_prompt |-> None, api_called |-> FALSE, api_messages |-> <<>>,
              ui |-> {}, retriever_invoked |-> FALSE]
        ELSE IF rag.raised
        THEN [ret |-> <<"Error setting up request: ", "boom">>,
              system_prompt |-> None, api_called |-> FALSE, api_messages |-> <<>>,
              ui |-> {"failed_to_prepare_request"}, retriever_invoked |-> rag.invoked]
        ELSE IF \A i \in 1..Len(api_messages) : api_messages[i].role /= "user"
        THEN [ret |-> <<"Error: Cannot generate response without user input in the conversation.">>,
              system_prompt |-> Some(system_prompt), api_called |-> FALSE,
              api_messages |-> <<>>, ui |-> rag.ui, retriever_invoked |-> rag.invoked]
        ELSE [ret |-> call.ret, system_prompt |-> Some(system_prompt),
              api_called |-> TRUE, api_messages |-> api_messages,
              ui |-> rag.ui \cup call.ui, retriever_invoked |-> rag.invoked]

-----------------------------------------------------------------------------
(* app.py: the sidebar's file selection and the process button *)

\* the order in which the uploader and the drive listings hold the files
FileOrder == <<"fTxt", "fPdf", "fBad", "fEmpty", "fMd", "fCsv", "fDocx", "fSlash", "fXls">>

RECURSIVE SelectSeq2(_, _)
\* the files of FileOrder that are in sel, in that order
SelectSeq2(order, sel) ==
    IF order = <<>> THEN <<>>
    ELSE (IF Head(order) \in sel THEN <<Head(order)>> ELSE <<>>)
         \o SelectSeq2(Tail(order), sel)

\* what the user can have selected when the button is pressed
Selections == {sel \in SUBSET Files : 1 <= Cardinality(sel) /\ Cardinality(sel) <= MaxBatch}

\* uploaded_files: the uploader's list
UploadedFiles(sel) == SelectSeq2(FileOrder, {f \in sel : FileSource(f) = "local"})

\* the id under which its drive lists a file of the catalogue
DriveId(f) == <<f>>

\* the file of the catalogue a drive returns for an id (the id is DriveId of
\* that file), None when it has none
DriveFileWithId(source, file_id) ==
    IF Len(file_id) = 1 /\ file_id[1] \in Files /\ FileSource(file_id[1]) = source
    THEN Some(file_id[1])
    ELSE None

\* the prefix of the option keys of a drive
KeyPrefix(source) == IF source = "google" THEN "g" ELSE "ms"

\* f"g_{f['id']}" / f"ms_{f['id']}"
OptionKey(source, file_id) == <<KeyPrefix(source), "_">> \o file_id

RECURSIVE str_split(_, _)
\* s.split(sep) for a separator of one character
str_split(s, sep) ==
    IF ~Contains(s, sep) THEN <<s>>
    ELSE LET p == CHOOSE i \in 1..Len(s) : s[i] = sep /\ \A j \in 1..(i - 1) : s[j] /= sep
         IN  <<SubSeq(s, 1, p - 1)>> \o str_split(SubSeq(s, p + 1, Len(s)), sep)

\* fkey.split("_")[1]
KeyFileId(fkey) == str_split(fkey, "_")[2]

\* the entries one drive adds to selected_drive_files_info: the options are
\* the keys of the listed files (ids are unique within a listing), picked
\* holds the positions of the keys the multiselect returns
DriveSelection(source, files_list, picked) ==
    LET options == [i \in 1..Len(files_list) |->
                       [key |-> OptionKey(source, files_list[i].id),
                        name |-> files_list[i].name]]
        chosen == SelectSeq(options,
                            LAMBDA o : \E i \in picked : i \in 1..Len(options) /\ options[i] = o)
    IN  [i \in 1..Len(chosen) |->
            [id |-> KeyFileId(chosen[i].key), name |-> chosen[i].name, source |-> source]]

\* google_files / ms_files: the files of the catalogue each drive lists
DriveFilesList ==
    [src \in {"google", "onedrive"} |->
        LET listed == SelectSeq2(FileOrder, {f \in Files : FileSource(f) = src})
        IN  [i \in 1..Len(listed) |->
                [id |-> DriveId(listed[i]), name |-> FileName(listed[i]), file |-> listed[i]]]]

\* selected_drive_files_info: the Google Drive selection, then the OneDrive one
SelectedDriveFilesInfo(sel) ==
    LET files_list(src) == [i \in DOMAIN DriveFilesList[src] |->
                               [id |-> DriveFilesList[src][i].id,
                                name |-> DriveFilesList[src][i].name]]
        picked(src) == {i \in DOMAIN DriveFilesList[src] : DriveFilesList[src][i].file \in sel}
    IN  DriveSelection("google", files_list("google"), picked("google"))
          \o DriveSelection("onedrive", files_list("onedrive"), picked("onedrive"))

\* variant: the button is disabled only while no file is selected
button_disabled_IgnoresFlag(has_local_files, has_drive_files) ==
    ~(has_local_files \/ has_drive_files)

\* button_disabled of "Process & Add Selected Files to RAG Index"
button_disabled(has_local_files, has_drive_files) ==
    processing_docs \/ ~(has_local_files \/ has_drive_files)

-----------------------------------------------------------------------------
(* app.py: the processing block that runs while processing_docs is set *)

\* variant: `if docs is not None:`
DocsNotNone(ret) == Truthy(ret)

\* `if docs:` after load_document: a list was returned and it is not empty
DocsTruthy(ret) == Truthy(ret) /\ Truthy(ret[1])

\* One iteration of a file loop, given the result r of load_document (or None
\* when the file could not be downloaded): the locals after it
AfterLoad(name, source, r) ==
    IF Truthy(r) /\ DocsTruthy(r[1].ret)
    THEN [all_docs |-> all_docs \o r[1].ret[1],
          processed_files_info |->
              Append(processed_files_info, [name |-> name, source |-> source]),
          has_errors |-> has_errors]
    ELSE [all_docs |-> all_docs, processed_files_info |-> processed_files_info,
          has_errors |-> TRUE]

\* variant: a loop that a failed file ends (the remaining files are skipped)
NextIndexAbort(i, n, failed) == IF failed THEN n ELSE i + 1

\* the for loops go on to the next file whatever happened to this one: a failed
\* load returns a falsy value and a raised exception is caught inside the body
NextIndex(i, n, failed) == i + 1

\* 3. Split documents
SplitStep(docs) == IF Truthy(docs) THEN split_documents(docs) ELSE <<>>

\* variant: a failed run that resets the three session values
KeepIndexDropped ==
    [vector_store |-> None, uploaded_files_info |-> <<>>, rag_index_ready |-> FALSE,
     ui |-> {}]

\* a failed or skipped run assigns none of the three session values
KeepIndex ==
    [vector_store |-> vector_store, uploaded_files_info |-> uploaded_files_info,
     rag_index_ready |-> rag_index_ready, ui |-> {}]

\* variant: the flag is set but the new store is never put into the session
NewIndexUnassigned(new_vector_store) == vector_store

\* variant: the new chunks are added to the held index instead of replacing it
NewIndexMerged(new_vector_store) ==
    IF vector_store /= None
    THEN Some([docs |-> vector_store[1].docs \o new_vector_store.docs])
    ELSE Some(new_vector_store)

\* st.session_state.vector_store = new_vector_store
NewIndex(new_vector_store) == Some(new_vector_store)

\* variant: the held index is overwritten without a word
ReplacementWarningNever(existing_store) == {}

\* existing_store = st.session_state.get("vector_store"); the warning when it
\* is not None
ReplacementWarning(existing_store) ==
    IF existing_store /= None THEN {Msg("replacing_existing_index", <<>>)} ELSE {}

\* 4. Create or Update Vector Store: the session values and the messages
\* after it, given create_vector_store's result cv (None when it is not called)
UpdateStep(chunks, cv, had_files) ==
    IF Truthy(chunks)
    THEN IF Truthy(cv[1].ret)
         THEN [vector_store |-> NewIndex(cv[1].ret[1]),
               uploaded_files_info |-> processed_files_info,
               rag_index_ready |-> TRUE,
               ui |-> cv[1].ui
                      \cup ReplacementWarning(vector_store)
                      \cup {Msg("success_indexed", <<>>)}
                      \cup (IF has_errors THEN {Msg("some_files_failed", <<>>)} ELSE {})]
         ELSE [KeepIndex EXCEPT !.ui = cv[1].ui \cup {Msg("index_not_updated", <<>>)}]
    ELSE IF has_errors
         THEN [KeepIndex EXCEPT !.ui = {Msg("completed_with_errors", <<>>)}]
    ELSE IF ~Truthy(all_docs) /\ had_files
         THEN [KeepIndex EXCEPT !.ui = {Msg("no_valid_content", <<>>)}]
    ELSE KeepIndex

\* variant: the reset sits inside the success branch
ResetOnlyWhenCommitted(committed) ==
    IF committed
    THEN [processing_docs |-> FALSE, temp_local |-> None, temp_drive |-> None]
    ELSE [processing_docs |-> processing_docs, temp_local |-> temp_local,
          temp_drive |-> temp_drive]

\* the end of the block: the flag is reset and the temporary keys are deleted
ResetAfterRun(committed) ==
    [processing_docs |-> FALSE, temp_local |-> None, temp_drive |-> None]

-----------------------------------------------------------------------------
(* Initial state: helpers.initialize_session_state, and app.py's load of the *)
(* key from the secrets file when there is one                              *)

\* the defaults of the chat keys, and no chat interaction yet
ChatDefaults ==
    /\ use_rag_context = TRUE
    /\ left_messages = <<>>
    /\ right_messages = <<>>
    /\ left_model = "gpt-4o"
    /\ right_model = "gpt-4o-mini"
    /\ project_context = <<>>
    /\ processing_response = FALSE
    /\ user_query_for_processing = None
    /\ chat_ui = {}
    /\ turn_log = <<>>

\* format_retrieved_docs has not been applied
FormatUnused ==
    /\ fmt_docs = <<>>
    /\ fmt_out = None

\* no retriever query has been made on its own
SearchUnused ==
    /\ srch_store = <<>>
    /\ srch_query = <<>>
    /\ srch_out = None

\* split_documents has not been applied on its own
SplitUnused ==
    /\ split_in = <<>>
    /\ split_out = None

\* no drive listing is looked at on its own
SelectUnused ==
    /\ drive_source = "google"
    /\ drive_files_list = <<>>
    /\ drive_picked = {}
    /\ drive_info = None

\* no ingestion run is under way and none has left messages on the page
IngestionAtRest ==
    /\ processing_docs = FALSE
    /\ temp_local = None
    /\ temp_drive = None
    /\ pc = "idle"
    /\ i_local = 0
    /\ i_drive = 0
    /\ all_docs = <<>>
    /\ processed_files_info = <<>>
    /\ has_errors = FALSE
    /\ ui = {}
    /\ run_start = <<None, FALSE, <<>>>>
    /\ run_log = <<>>
    /\ run_end = None

Init ==
    /\ OPENAI_API_KEY \in {<<>>, <<"sk-secret">>}
    /\ vector_store = None
    /\ rag_index_ready = FALSE
    /\ uploaded_files_info = <<>>
    /\ IngestionAtRest
    /\ ChatDefaults
    /\ FormatUnused
    /\ SearchUnused
    /\ SplitUnused
    /\ SelectUnused

-----------------------------------------------------------------------------
(* Actions *)

\* The sidebar's key input: a non-empty value replaces the key
SetApiKey ==
    /\ pc = "idle"
    /\ OPENAI_API_KEY' = <<"sk-input">>
    /\ OPENAI_API_KEY' /= OPENAI_API_KEY
    /\ UNCHANGED <<vector_store, rag_index_ready, uploaded_files_info, chat_vars, pure_vars,
                   processing_docs, temp_local, temp_drive, pc, i_local, i_drive,
                   all_docs, processed_files_info, has_errors, ui, run_start,
                   run_log, run_end>>

\* "Clear RAG Index", shown while an index is ready and files are listed
ClearRagIndex ==
    /\ pc = "idle"
    /\ rag_index_ready /\ Truthy(uploaded_files_info)
    /\ vector_store' = None
    /\ rag_index_ready' = FALSE
    /\ uploaded_files_info' = <<>>
    /\ UNCHANGED <<OPENAI_API_KEY, chat_vars, pure_vars,
                   processing_docs, temp_local, temp_drive, pc, i_local, i_drive,
                   all_docs, processed_files_info, has_errors, ui, run_start,
                   run_log, run_end>>

\* "Process & Add Selected Files to RAG Index": sets the flag, stores the two
\* lists and reruns the script, which enters the processing block. The button
\* is on the page while the script waits and while the block runs (the
\* sidebar is drawn before the block); only its disabled flag keeps a click
\* away.
ClickProcess ==
    /\ pc \in {"idle", "block"}
    /\ \E sel \in Selections :
       \E uploaded_files \in {UploadedFiles(sel)} :
       \E selected_drive_files_info \in {SelectedDriveFilesInfo(sel)} :
           /\ ~button_disabled(Truthy(uploaded_files), Truthy(selected_drive_files_info))
           /\ processing_docs' = TRUE
           /\ temp_drive' = Some(selected_drive_files_info)
           /\ temp_local' = Some(uploaded_files)
    /\ pc' = "block"
    /\ i_local' = 0
    /\ i_drive' = 0
    /\ all_docs' = <<>>
    /\ processed_files_info' = <<>>
    /\ has_errors' = FALSE
    /\ ui' = {}
    /\ run_start' = <<vector_store, rag_index_ready, uploaded_files_info>>
    /\ run_log' = <<>>
    /\ run_end' = None
    /\ UNCHANGED <<OPENAI_API_KEY, vector_store, rag_index_ready, uploaded_files_info,
                   chat_vars, pure_vars>>

\* st.session_state.get(key, []) of a temporary list
TempList(t) == IF Truthy(t) THEN t[1] ELSE <<>>

\* 1. Process local uploads: one iteration of the loop
LoadLocalFile ==
    /\ pc = "block" /\ processing_docs
    /\ i_local < Len(TempList(temp_local))
    /\ \E up_file \in {TempList(temp_local)[i_local + 1]} :
       \E r \in {load_document(up_file)} :
       \E after \in {AfterLoad(FileName(up_file), "local", Some(r))} :
           /\ all_docs' = after.all_docs
           /\ processed_files_info' = after.processed_files_info
           /\ has_errors' = after.has_errors
           /\ ui' = ui \cup r.ui
           /\ run_log' = Append(run_log, [file |-> up_file, downloaded |-> TRUE,
                                          loaded |-> DocsTruthy(r.ret), loader |-> r.loader,
                                          temp_dir_removed |-> r.temp_dir_removed,
                                          ui |-> r.ui])
           /\ i_local' = NextIndex(i_local, Len(TempList(temp_local)), ~DocsTruthy(r.ret))
    /\ UNCHANGED <<OPENAI_API_KEY, vector_store, rag_index_ready, uploaded_files_info,
                   chat_vars, pure_vars, processing_docs, temp_local, temp_drive, pc,
                   i_drive, run_start, run_end>>

\* the outcomes of a download: the file's bytes, an error of the drive's API,
\* or no connection (google_service / ms_token absent from the session)
DownloadOutcomes == {"ok", "api_error", "disconnected"}

\* what one iteration of the drive loop gets for a file, given the file the
\* drive holds under the id asked for (None when it holds none): the result
\* of load_document on the downloaded bytes, None when there are none
DriveLoad(drive_file, dl, held) ==
    LET r == IF dl = "ok" /\ Truthy(held) THEN Some(load_document(held[1])) ELSE None
    IN  [r |-> r,
         file |-> IF Truthy(held) THEN held[1] ELSE "none",
         downloaded |-> Truthy(r),
         ok |-> Truthy(r) /\ DocsTruthy(r[1].ret),
         loader |-> IF Truthy(r) THEN r[1].loader ELSE "none",
         temp_dir_removed |-> IF Truthy(r) THEN r[1].temp_dir_removed ELSE TRUE,
         ui |-> IF Truthy(r) THEN r[1].ui ELSE {Msg("download_failed", drive_file.name)}]

\* 2. Process selected drive files: one iteration of the loop
LoadDriveFile ==
    /\ pc = "block" /\ processing_docs
    /\ i_local >= Len(TempList(temp_local))
    /\ i_drive < Len(TempList(temp_drive))
    /\ \E dl \in DownloadOutcomes :
       \E drive_file \in {TempList(temp_drive)[i_drive + 1]} :
       \E held \in {DriveFileWithId(drive_file.source, drive_file.id)} :
       \E got \in {DriveLoad(drive_file, dl, held)} :
       \E after \in {AfterLoad(drive_file.name, drive_file.source, got.r)} :
           /\ all_docs' = after.all_docs
           /\ processed_files_info' = after.processed_files_info
           /\ has_errors' = after.has_errors
           /\ ui' = ui \cup got.ui
           /\ run_log' = Append(run_log, [file |-> got.file, downloaded |-> got.downloaded,
                                          loaded |-> got.ok, loader |-> got.loader,
                                          temp_dir_removed |-> got.temp_dir_removed,
                                          ui |-> got.ui])
           /\ i_drive' = NextIndex(i_drive, Len(TempList(temp_drive)), ~got.ok)
    /\ UNCHANGED <<OPENAI_API_KEY, vector_store, rag_index_ready, uploaded_files_info,
                   chat_vars, pure_vars, processing_docs, temp_local, temp_drive, pc,
                   i_local, run_start, run_end>>

\* 3. and 4. for one behaviour env of the embedding service: the chunks, the
\* result of create_vector_store (None when it is not called), the session
\* values after step 4 and the reset that ends the block
IndexRun(env) ==
    LET chunks == SplitStep(all_docs)
        cv == IF Truthy(chunks)
              THEN Some(create_vector_store(chunks, OPENAI_API_KEY, env))
              ELSE None
        committed == Truthy(cv) /\ Truthy(cv[1].ret)
    IN  [chunks |-> chunks,
         committed |-> committed,
         failure |-> IF Truthy(cv) THEN cv[1].failure ELSE "not_called",
         embed |-> IF Truthy(cv)
                   THEN [client_built |-> cv[1].client_built,
                         probe_calls |-> cv[1].probe_calls,
                         batch_embed_calls |-> cv[1].batch_embed_calls]
                   ELSE [client_built |-> FALSE, probe_calls |-> 0,
                         batch_embed_calls |-> 0],
         upd |-> UpdateStep(chunks, cv,
                            Truthy(TempList(temp_local)) \/ Truthy(TempList(temp_drive))),
         reset |-> ResetAfterRun(committed)]

\* 3. and 4., then the reset of the flag and the removal of the temporary
\* keys, up to the final rerun
IndexAndFinish ==
    /\ pc = "block" /\ processing_docs
    /\ i_local >= Len(TempList(temp_local))
    /\ i_drive >= Len(TempList(temp_drive))
    /\ \E env \in EmbedEnvs :
       \E run \in {IndexRun(env)} :
           /\ vector_store' = run.upd.vector_store
           /\ uploaded_files_info' = run.upd.uploaded_files_info
           /\ rag_index_ready' = run.upd.rag_index_ready
           /\ ui' = ui \cup run.upd.ui
           /\ processing_docs' = run.reset.processing_docs
           /\ temp_local' = run.reset.temp_local
           /\ temp_drive' = run.reset.temp_drive
           /\ run_end' = Some([chunks |-> run.chunks,
                               committed |-> run.committed,
                               failure |-> run.failure,
                               embed |-> run.embed,
                               processed |-> processed_files_info,
                               has_errors |-> has_errors,
                               files |-> TempList(temp_local)
                                         \o [i \in 1..Len(TempList(temp_drive)) |->
                                                DriveFileWithId(TempList(temp_drive)[i].source,
                                                                TempList(temp_drive)[i].id)[1]],
                               ui |-> run.upd.ui])
    /\ pc' = "finished"
    /\ i_local' = 0
    /\ i_drive' = 0
    /\ all_docs' = <<>>
    /\ processed_files_info' = <<>>
    /\ has_errors' = FALSE
    /\ UNCHANGED <<OPENAI_API_KEY, chat_vars, pure_vars, run_start, run_log>>

\* The final st.rerun() of the block: the script starts over, the messages of
\* the run leave the page and the sidebar waits for the next interaction
RerunAfterProcessing ==
    /\ pc = "finished"
    /\ pc' = IF processing_docs THEN "block" ELSE "idle"
    /\ ui' = {}
    /\ run_start' = <<None, FALSE, <<>>>>
    /\ run_log' = <<>>
    /\ run_end' = None
    /\ UNCHANGED <<OPENAI_API_KEY, vector_store, rag_index_ready, uploaded_files_info,
                   chat_vars, pure_vars, processing_docs, temp_local, temp_drive,
                   i_local, i_drive, all_docs, processed_files_info, has_errors>>

Next ==
    \/ SetApiKey
    \/ ClearRagIndex
    \/ ClickProcess
    \/ LoadLocalFile
    \/ LoadDriveFile
    \/ IndexAndFinish
    \/ RerunAfterProcessing

Spec == Init /\ [][Next]_vars

\* The script runs the processing block to its end once it has entered it,
\* and the rerun it asks for takes place.
ProcessingBlock == LoadLocalFile \/ LoadDriveFile \/ IndexAndFinish \/ RerunAfterProcessing

FairSpec == Spec /\ WF_vars(ProcessingBlock)

-----------------------------------------------------------------------------
(* The chat: app.py's retriever setup, "Submit to Both Models", the         *)
(* response processing on the rerun, and the sidebar and clear widgets.    *)
(* Its behaviours start from a session in which ingestion runs have left   *)
(* an index or none.                                                       *)

\* user turns a history may hold
MaxTurns == 1

\* what the user types into "Your message:"
UserInputs == QueryTexts \cup {<<>>, <<" ">>}

\* the models the two select boxes are set to: the default of the side, or
\* the fine-tuned model
ModelChoices(side) ==
    IF side = "left" THEN {"gpt-4o", "ProjectPathLM-v0"} ELSE {"gpt-4o-mini", "ProjectPathLM-v0"}

\* the display loop of a column: every assistant message of the history is
\* given the model now selected as model_name
Redisplay(messages, model) ==
    [i \in 1..Len(messages) |->
        IF messages[i].role = "assistant"
        THEN [messages[i] EXCEPT !.model_name = model] ELSE messages[i]]

\* helpers.initialize_session_state: left_mbti / right_mbti
DefaultMbti == <<"INTJ">>

\* helpers.initialize_session_state: left_big_five / right_big_five
DefaultBigFive ==
    << <<"openness", 50>>, <<"conscientiousness", 50>>, <<"extraversion", 50>>,
       <<"agreeableness", 50>>, <<"neuroticism", 50>> >>

\* the radio "Select Personality Framework:" at its default, "Both"
personality_framework_radio == "Both"

\* use_project_context at its default
use_project_context == TRUE

\* The session an ingestion run over the files of sel leaves when each
\* download and both embedding requests succeed and a key is set: the index
\* over the chunks of the files that load, or the session's defaults when
\* there is no chunk.
SessionAfterRun(sel) ==
    LET order == UploadedFiles(sel)
                    \o [i \in 1..Len(SelectedDriveFilesInfo(sel)) |->
                           DriveFileWithId(SelectedDriveFilesInfo(sel)[i].source,
                                           SelectedDriveFilesInfo(sel)[i].id)[1]]
        loaded == SelectSeq(order, LAMBDA f : DocsTruthy(load_document(f).ret))
        chunks == split_documents(
                      Concat([i \in 1..Len(loaded) |-> load_document(loaded[i]).ret[1]]))
    IN  IF Truthy(chunks)
        THEN [vector_store |-> Some(FAISS_from_documents(chunks)),
              rag_index_ready |-> TRUE,
              uploaded_files_info |->
                  [i \in 1..Len(loaded) |->
                      [name |-> FileName(loaded[i]), source |-> FileSource(loaded[i])]]]
        ELSE [vector_store |-> None, rag_index_ready |-> FALSE,
              uploaded_files_info |-> <<>>]

SessionIndexes == {SessionAfterRun(sel) : sel \in Selections}

InitChat ==
    /\ OPENAI_API_KEY \in {<<>>, <<"sk-secret">>}
    /\ \E s \in SessionIndexes :
          /\ vector_store = s.vector_store
          /\ rag_index_ready = s.rag_index_ready
          /\ uploaded_files_info = s.uploaded_files_info
    /\ IngestionAtRest
    /\ ChatDefaults
    /\ FormatUnused
    /\ SearchUnused
    /\ SplitUnused
    /\ SelectUnused

\* the script is not inside the response processing
ChatIdle == pc = "idle" /\ ~processing_response

\* the toggle "Use Document Context (RAG)"
ToggleRagContext ==
    /\ ChatIdle
    /\ use_rag_context' = ~use_rag_context
    /\ chat_ui' = {}
    /\ turn_log' = <<>>
    /\ UNCHANGED <<ingest_vars, pure_vars, left_messages, right_messages, left_model,
                   right_model, project_context, processing_response,
                   user_query_for_processing>>

\* "Select Left Model:" / "Select Right Model:"
SelectModel ==
    /\ ChatIdle
    /\ \E l \in ModelChoices("left"), r \in ModelChoices("right") :
          /\ <<l, r>> /= <<left_model, right_model>>
          /\ left_model' = l
          /\ right_model' = r
          /\ left_messages' = Redisplay(left_messages, l)
          /\ right_messages' = Redisplay(right_messages, r)
    /\ chat_ui' = {}
    /\ turn_log' = <<>>
    /\ UNCHANGED <<ingest_vars, pure_vars, use_rag_context,
                   project_context, processing_response, user_query_for_processing>>

\* "Fetch/Update Jira Data" stores the stripped context, or ""
FetchJiraContext ==
    /\ ChatIdle
    /\ \E c \in {<<>>, <<"PROJ: 3 open issues">>} :
          /\ c /= project_context
          /\ project_context' = c
    /\ chat_ui' = {}
    /\ turn_log' = <<>>
    /\ UNCHANGED <<ingest_vars, pure_vars, use_rag_context, left_messages, right_messages,
                   left_model, right_model, processing_response,
                   user_query_for_processing>>

\* "Submit to Both Models"
Submit ==
    /\ ChatIdle
    /\ \E user_input \in UserInputs :
          IF ~Truthy(OPENAI_API_KEY)
          THEN /\ chat_ui' = {"enter_api_key"}
               /\ UNCHANGED <<left_messages, right_messages, processing_response,
                              user_query_for_processing>>
          ELSE IF ~Truthy(strip(user_input))
          THEN /\ chat_ui' = {"enter_message"}
               /\ UNCHANGED <<left_messages, right_messages, processing_response,
                              user_query_for_processing>>
          ELSE /\ Len(left_messages) < 2 * MaxTurns
               /\ Len(right_messages) < 2 * MaxTurns
               /\ left_messages' =
                      Append(left_messages, format_message("user", user_input, None))
               /\ right_messages' =
                      Append(right_messages, format_message("user", user_input, None))
               /\ processing_response' = TRUE
               /\ user_query_for_processing' = Some(user_input)
               /\ chat_ui' = {}
    /\ turn_log' = <<>>
    /\ UNCHANGED <<ingest_vars, pure_vars, use_rag_context, left_model, right_model,
                   project_context>>

\* "Retrieve RAG retriever if index is ready"
current_rag_retriever ==
    IF rag_index_ready /\ Truthy(vector_store) THEN get_retriever(vector_store) ELSE None

\* one of the two calls of the response processing, and what the turn's record
\* keeps of it
ModelCall(messages, model, env) ==
    LET use_jira == use_project_context
        user_query == IF Truthy(user_query_for_processing)
                      THEN user_query_for_processing[1] ELSE <<>>
        r == get_model_response(messages, model, DefaultMbti, DefaultBigFive,
                 personality_framework_radio \in {"MBTI", "Both"},
                 personality_framework_radio \in {"Big Five", "Both"},
                 IF use_jira THEN project_context ELSE None, use_jira,
                 current_rag_retriever, use_rag_context, user_query,
                 OPENAI_API_KEY, env)
    IN  [use_rag |-> use_rag_context, rag_retriever |-> current_rag_retriever,
         user_query |-> user_query, model |-> model,
         retrieval_raised |-> r.retriever_invoked /\ env.retrieval_raises,
         result |-> r]

\* variant: the two processing keys are left in the session
ProcessResponseKeepsKeys ==
    /\ pc = "idle" /\ processing_response
    /\ \E envL \in CallEnvs, envR \in CallEnvs :
       \E L \in {ModelCall(left_messages, left_model, envL)} :
       \E R \in {ModelCall(right_messages, right_model, envR)} :
          /\ left_messages' = Append(left_messages,
                 format_message("assistant", L.result.ret, Some(left_model)))
          /\ right_messages' = Append(right_messages,
                 format_message("assistant", R.result.ret, Some(right_model)))
          /\ turn_log' = <<L, R>>
          /\ chat_ui' = L.result.ui \cup R.result.ui
    /\ UNCHANGED <<ingest_vars, pure_vars, use_rag_context, left_model, right_model,
                   project_context, processing_response, user_query_for_processing>>

\* "Processing Logic on Rerun": the left call, the right call, the two
\* assistant messages, and the removal of the two processing keys
ProcessResponse ==
    /\ pc = "idle" /\ processing_response
    /\ \E envL \in CallEnvs, envR \in CallEnvs :
       \E L \in {ModelCall(left_messages, left_model, envL)} :
       \E R \in {ModelCall(right_messages, right_model, envR)} :
          /\ left_messages' = Append(left_messages,
                 format_message("assistant", L.result.ret, Some(left_model)))
          /\ right_messages' = Append(right_messages,
                 format_message("assistant", R.result.ret, Some(right_model)))
          /\ turn_log' = <<L, R>>
          /\ chat_ui' = L.result.ui \cup R.result.ui
    /\ processing_response' = FALSE
    /\ user_query_for_processing' = None
    /\ UNCHANGED <<ingest_vars, pure_vars, use_rag_context, left_model, right_model,
                   project_context>>

\* "Clear Left", "Clear Right", "Clear Both"
ClearHistory ==
    /\ ChatIdle
    /\ \E side \in {"left", "right", "both"} :
          /\ left_messages' = IF side = "right" THEN left_messages ELSE <<>>
          /\ right_messages' = IF side = "left" THEN right_messages ELSE <<>>
    /\ <<left_messages', right_messages'>> /= <<left_messages, right_messages>>
    /\ chat_ui' = {}
    /\ turn_log' = <<>>
    /\ UNCHANGED <<ingest_vars, pure_vars, use_rag_context, left_model, right_model,
                   project_context, processing_response, user_query_for_processing>>

NextChat ==
    \/ ToggleRagContext
    \/ SelectModel
    \/ FetchJiraContext
    \/ Submit
    \/ ProcessResponse
    \/ ClearHistory

SpecChat == InitChat /\ [][NextChat]_vars

-----------------------------------------------------------------------------
(* format_retrieved_docs on its own: applied to any sequence of chunks     *)

\* chunks in a retrieval result handed to format_retrieved_docs
MaxDocs == 3

\* chunks as they are stored (source, start_index, page for a PDF's), and one
\* without metadata
SampleChunks ==
    {[page_content |-> <<"alpha">>,
      metadata |-> [source |-> <<"a", ".", "txt">>, start_index |-> 0]],
     [page_content |-> <<"beta">>,
      metadata |-> [source |-> <<"b", ".", "PDF">>, page |-> 0, start_index |-> 0]],
     [page_content |-> <<NoRelPhrase, " ", "in", " ", "sheet">>,
      metadata |-> [source |-> <<"f", ".", "xls">>, start_index |-> 1]],
     [page_content |-> <<"gamma">>, metadata |-> [start_index |-> 0]]}

RetrievalResults ==
    UNION {[1..n -> SampleChunks] : n \in 0..MaxDocs}

InitFormat ==
    /\ OPENAI_API_KEY = <<>>
    /\ vector_store = None
    /\ rag_index_ready = FALSE
    /\ uploaded_files_info = <<>>
    /\ IngestionAtRest
    /\ ChatDefaults
    /\ FormatUnused
    /\ SearchUnused
    /\ SplitUnused
    /\ SelectUnused

\* rag_context_str = format_retrieved_docs(retrieved_docs)
Format ==
    /\ fmt_out = None
    /\ fmt_docs \in RetrievalResults
    /\ fmt_out' = Some(format_retrieved_docs(fmt_docs))
    /\ UNCHANGED <<ingest_vars, chat_vars, search_vars, split_vars, select_vars, fmt_docs>>

\* the next retrieval result
NextResult ==
    /\ fmt_out /= None
    /\ fmt_docs' \in RetrievalResults
    /\ fmt_out' = None
    /\ UNCHANGED <<ingest_vars, chat_vars, search_vars, split_vars, select_vars>>

NextFormat == Format \/ NextResult

SpecFormat == InitFormat /\ [][NextFormat]_vars

----------------------------------------------------------------------------
\* A retriever query on its own: an index built from any chunks, asked any
\* of the query texts through the retriever of get_retriever.

MaxStored == 5

\* chunks with distinct texts; "beta" and "delta" embed to the same point
SearchChunks ==
    {[page_content |-> <<t>>, metadata |-> [source |-> <<"a", ".", "txt">>, start_index |-> 0]] :
        t \in {"alpha", "beta", "gamma", "delta", "sheet", "omega"}}

\* what an index can hold: distinct chunks in any insertion order
StoredChunks ==
    UNION {{c \in [1..n -> SearchChunks] : \A i, j \in 1..n : c[i] = c[j] => i = j} : n \in 0..MaxStored}

InitSearch ==
    /\ OPENAI_API_KEY = <<>>
    /\ vector_store = None
    /\ rag_index_ready = FALSE
    /\ uploaded_files_info = <<>>
    /\ IngestionAtRest
    /\ ChatDefaults
    /\ FormatUnused
    /\ srch_store = <<>>
    /\ srch_query \in QueryTexts
    /\ srch_out = None
    /\ SplitUnused
    /\ SelectUnused

\* retrieved_docs = rag_retriever.invoke(user_query), rag_retriever being
\* get_retriever(vector_store) of an index that holds srch_store
Search ==
    /\ srch_out = None
    /\ srch_store \in StoredChunks
    /\ srch_query \in QueryTexts
    /\ srch_out' = Some(retriever_invoke(get_retriever(Some(FAISS_from_documents(srch_store))), srch_query))
    /\ UNCHANGED <<ingest_vars, chat_vars, fmt_vars, split_vars, select_vars, srch_store, srch_query>>

\* the next index and query
NextQuery ==
    /\ srch_out /= None
    /\ srch_store' \in StoredChunks
    /\ srch_query' \in QueryTexts
    /\ srch_out' = None
    /\ UNCHANGED <<ingest_vars, chat_vars, fmt_vars, split_vars, select_vars>>

NextSearch == Search \/ NextQuery

SpecSearch == InitSearch /\ [][NextSearch]_vars

-----------------------------------------------------------------------------
(* Properties of an ingestion run.  They are stated on the state in which  *)
(* the processing block has just finished (pc = "finished"), where run_log *)
(* and run_end tell what the run did and run_start what the session held   *)
(* when the button was pressed.                                            *)

Range(seq) == {seq[i] : i \in 1..Len(seq)}

Finished == pc = "finished" /\ Truthy(run_end)

SessionIndex == <<vector_store, rag_index_ready, uploaded_files_info>>

\* the documents of the files the run loaded, in the order of the batch
RunDocs ==
    Concat([i \in 1..Len(run_log) |->
               IF run_log[i].loaded THEN load_document(run_log[i].file).ret[1] ELSE <<>>])

UiKinds == {m.kind : m \in ui}

\* C1: when the credential check, the validation probe or the batch
\* embedding / index construction fails, no index is committed: vector_store,
\* rag_index_ready and uploaded_files_info hold the values they had when the
\* run started; nor are they touched while the run is under way.
C1_FailedRunKeepsIndex ==
    /\ pc = "block" => SessionIndex = run_start
    /\ (Finished /\ run_end[1].failure \in {"credential", "probe", "build"})
          => (SessionIndex = run_start /\ ~run_end[1].committed)

C1_Witness ==
    /\ Finished
    /\ run_end[1].failure = "build"
    /\ run_start[1] /= None
    /\ SessionIndex = run_start

\* C2: after a successful run the index holds exactly the chunks of that
\* run's files, and no query returns a chunk that only the index held
\* before the run contained.
C2_IndexHoldsOnlyThisRun ==
    (Finished /\ run_end[1].committed) =>
        LET new == split_documents(RunDocs)
            old == IF run_start[1] /= None THEN Range(run_start[1][1].docs) ELSE {}
        IN  /\ vector_store /= None
            /\ vector_store[1].docs = new
            /\ \A q \in QueryTexts :
                 \A d \in Range(similarity_search(get_retriever(vector_store)[1].store, q,
                                                   get_retriever(vector_store)[1].k)) :
                     d \in Range(new) /\ d \notin (old \ Range(new))

C2_Witness ==
    /\ Finished
    /\ run_end[1].committed
    /\ run_start[1] /= None
    /\ \E d \in Range(run_start[1][1].docs) : d \notin Range(vector_store[1].docs)

\* C3: a file whose load fails does not stop the batch: every file of the
\* batch is iterated, each one that can be loaded is loaded whatever
\* happened to the others, and the chunks that are indexed are those of all
\* the files that loaded.
C3_FailedFileDoesNotStopBatch ==
    Finished =>
        /\ Len(run_log) = Len(run_end[1].files)
        /\ \A i \in 1..Len(run_log) :
              /\ run_log[i].file = run_end[1].files[i]
              /\ run_log[i].loaded <=>
                    (run_log[i].downloaded /\ DocsTruthy(load_document(run_log[i].file).ret))
        /\ run_end[1].chunks = split_documents(RunDocs)
        /\ run_end[1].committed => vector_store[1].docs = split_documents(RunDocs)

C3_Witness ==
    /\ Finished
    /\ run_end[1].committed
    /\ \E i, j \in 1..Len(run_log) : i < j /\ ~run_log[i].loaded /\ run_log[j].loaded

\* C5: the replacement warning is shown by exactly the runs that overwrite
\* an index the session held when they started.
C5_ReplacementWarned ==
    Finished =>
        ("replacing_existing_index" \in UiKinds
            <=> (run_end[1].committed /\ run_start[1] /= None))

C5_Witness ==
    /\ Finished
    /\ run_end[1].committed
    /\ run_start[1] /= None
    /\ "replacing_existing_index" \in UiKinds

\* the kinds of the warnings and errors of the processing block
WarningOrErrorKinds ==
    {"no_chunks_to_index", "index_not_updated", "completed_with_errors",
     "no_valid_content", "load_failed", "unsupported_type", "loader_init_error",
     "download_failed", "openai_key_missing", "embeddings_init_failed",
     "vector_store_failed"}

\* C6: a run that ends with an empty chunk sequence builds no index, leaves
\* the held index as it was and shows a warning or an error.
C6_EmptyChunksWarned ==
    (Finished /\ run_end[1].chunks = <<>>) =>
        /\ ~run_end[1].committed
        /\ SessionIndex = run_start
        /\ UiKinds \cap WarningOrErrorKinds /= {}

\* the extensions load_document has a parser for
SupportedExtensions == {ExtPdf, ExtTxt, ExtMd, ExtCsv, ExtXlsx, ExtXls}

\* what the run holds of the file of log entry i: its name among the
\* processed files, or a document bearing its name
Contributes(i) ==
    \/ \E k \in 1..Len(run_end[1].processed) :
          run_end[1].processed[k].name = FileName(run_log[i].file)
    \/ \E c \in Range(run_end[1].chunks) : c.metadata.source = FileName(run_log[i].file)

\* every other file of the batch fares as it does when it is loaded alone
SiblingsUnaffected(i) ==
    \A j \in 1..Len(run_log) :
        (j /= i /\ run_log[j].downloaded) =>
            (run_log[j].loaded <=> DocsTruthy(load_document(run_log[j].file).ret))

\* C7: for every file handed to load_document, a parser is selected exactly
\* when the lower-cased extension is one of the six, and a file of any other
\* extension gets the unsupported-type message, contributes nothing and
\* leaves the siblings alone.
C7_ParserByExtension ==
    Finished =>
        \A i \in 1..Len(run_log) :
            run_log[i].downloaded =>
                LET ext == FileExtension(FileName(run_log[i].file))
                IN  /\ run_log[i].loader /= "none" <=> ext \in SupportedExtensions
                    /\ ext \notin SupportedExtensions =>
                          /\ ~run_log[i].loaded
                          /\ run_log[i].ui = {Msg("unsupported_type", FileName(run_log[i].file))}
                          /\ ~Contributes(i)
                          /\ SiblingsUnaffected(i)

\* C8: every run that has been started completes, whichever stage fails:
\* processing_docs is reset and both temporary keys are removed.
C8_RunCompletes ==
    processing_docs ~> (~processing_docs /\ temp_local = None /\ temp_drive = None)

C8_Witness ==
    /\ Finished
    /\ run_end[1].failure = "probe"
    /\ run_end[1].has_errors
    /\ ~processing_docs /\ temp_local = None /\ temp_drive = None

-----------------------------------------------------------------------------
(* Properties of a chat turn.  They are stated on the state in which the   *)
(* response processing has just finished, where turn_log holds the left    *)
(* and the right call of get_model_response.                               *)

\* the calls the latest response processing made
Calls == Range(turn_log)

\* the system prompt a call returned holds the RAG header
HasRagSection(c) ==
    Truthy(c.result.system_prompt) /\ Contains(c.result.system_prompt[1], RagHeader)

\* the call sent its messages to the chat model, the system prompt it
\* assembled first
CalledChatModel(c) ==
    /\ c.result.api_called
    /\ Truthy(c.result.system_prompt)
    /\ Truthy(c.result.api_messages)
    /\ c.result.api_messages[1] =
           [role |-> "system", content |-> c.result.system_prompt[1]]
    /\ \E i \in 1..Len(c.result.api_messages) :
           c.result.api_messages[i] = [role |-> "user", content |-> c.user_query]

\* C4: a call of a chat turn whose retriever raised, or that had no retriever,
\* still assembled the system prompt and called the chat model, the prompt
\* holds no RAG section, and the turn ran to its end: both histories got their
\* assistant message and the processing keys are gone.
C4_RetrievalFailureDegrades ==
    \A c \in Calls :
        (c.retrieval_raised \/ ~Truthy(c.rag_retriever)) =>
            /\ CalledChatModel(c)
            /\ ~HasRagSection(c)
            /\ ~processing_response
            /\ user_query_for_processing = None
            /\ left_messages[Len(left_messages)].role = "assistant"
            /\ right_messages[Len(right_messages)].role = "assistant"

\* a turn in which the retriever raised for the left call and answered the
\* right call, whose prompt holds the RAG section
C4_Witness ==
    /\ turn_log /= <<>>
    /\ turn_log[1].retrieval_raised
    /\ turn_log[1].result.api_called
    /\ ~turn_log[2].retrieval_raised
    /\ HasRagSection(turn_log[2])

\* C9: applied to an empty retrieval result, format_retrieved_docs returns the
\* sentence "No relevant documents found in the local index." and not the
\* empty string.
C9_EmptyResultGivesSentence ==
    (fmt_out /= None /\ fmt_docs = <<>>) =>
        /\ fmt_out[1] = <<"No relevant documents found", " in the local index.">>
        /\ fmt_out[1] /= <<>>

\* format_retrieved_docs has been applied to the empty result
C9_Witness ==
    /\ fmt_docs = <<>>
    /\ fmt_out /= None
    /\ fmt_out[1] /= <<>>

\* what the retriever of the call hands to the formatter is a context block:
\* the retriever answered and the formatted text starts with the start
\* delimiter, that is, it is not the no-documents sentence
RealContextBlock(c) ==
    /\ ~c.retrieval_raised
    /\ Head(format_retrieved_docs(retriever_invoke(c.rag_retriever, c.user_query)))
           = RetrievedContextStart

\* C10: the system prompt of a call holds the RAG header exactly when RAG is
\* enabled, a retriever exists, the query is not empty and the formatted
\* retrieval result is a context block and not the no-documents sentence.
C10_RagHeaderIffContext ==
    \A c \in Calls :
        c.result.api_called =>
            (HasRagSection(c) <=>
                (/\ c.use_rag
                 /\ Truthy(c.rag_retriever)
                 /\ Truthy(c.user_query)
                 /\ RealContextBlock(c)))

-----------------------------------------------------------------------------
(* Properties of format_retrieved_docs, on the state in which it has been  *)
(* applied to fmt_docs.                                                    *)

RECURSIVE SplitLines(_)
\* the lines of a string: the runs of tokens between its newline tokens
SplitLines(str) ==
    IF \A i \in 1..Len(str) : str[i] /= "\n" THEN <<str>>
    ELSE LET k == CHOOSE i \in 1..Len(str) :
                      str[i] = "\n" /\ \A j \in 1..(i - 1) : str[j] /= "\n"
         IN  <<SubSeq(str, 1, k - 1)>> \o SplitLines(SubSeq(str, k + 1, Len(str)))

\* the heading line of entry n for chunk doc, written out
EntryHeading(n, doc) ==
    <<"Chunk ", ToString(n), " (Source: ">>
        \o (IF "source" \in DOMAIN doc.metadata THEN doc.metadata.source
            ELSE <<"Unknown source">>)
        \o (IF "page" \in DOMAIN doc.metadata
            THEN <<", Page: ", ToString(doc.metadata.page + 1)>> ELSE <<>>)
        \o <<")", ":">>

\* C11: for a result of n >= 1 chunks the block is the start delimiter, then
\* for each chunk in result order its heading (ordinal from 1, source or
\* "Unknown source", page + 1 only when a page is stored), its full text and
\* a separator line, then the end delimiter, and nothing else.
C11_BlockListsEveryChunk ==
    (fmt_out /= None /\ fmt_docs /= <<>>) =>
        LET lines == SplitLines(fmt_out[1])
            n == Len(fmt_docs)
        IN  /\ Len(lines) = 3 * n + 2
            /\ lines[1] = <<"--- Retrieved Context From Your Documents ---">>
            /\ lines[3 * n + 2] = <<"--- End Retrieved Context ---">>
            /\ \A i \in 1..n :
                  /\ lines[3 * i - 1] = EntryHeading(i, fmt_docs[i])
                  /\ lines[3 * i] = fmt_docs[i].page_content
                  /\ lines[3 * i + 1] = <<"---">>

\* a result of three chunks, one with a page, one without any source
C11_Witness ==
    /\ fmt_out /= None
    /\ Len(fmt_docs) = 3
    /\ "page" \in DOMAIN fmt_docs[1].metadata
    /\ "source" \notin DOMAIN fmt_docs[2].metadata
    /\ "page" \notin DOMAIN fmt_docs[3].metadata
    /\ Head(fmt_out[1]) = "--- Retrieved Context From Your Documents ---"

-----------------------------------------------------------------------------
(* Further properties of an ingestion run *)

\* C12: in a run that reaches create_vector_store with chunks while no key
\* is set, get_openai_embeddings fails on the key before the client is
\* constructed and before any embedding request is issued, the failure is
\* shown, and no index is built: the session keeps the index it had.
C12_NoKeyFailsBeforeAnyCall ==
    (Finished /\ run_end[1].chunks /= <<>> /\ ~Truthy(OPENAI_API_KEY)) =>
        /\ run_end[1].failure = "credential"
        /\ ~run_end[1].embed.client_built
        /\ run_end[1].embed.probe_calls = 0
        /\ run_end[1].embed.batch_embed_calls = 0
        /\ Msg("openai_key_missing", <<>>) \in ui
        /\ ~run_end[1].committed
        /\ SessionIndex = run_start

C12_Witness ==
    /\ Finished
    /\ ~Truthy(OPENAI_API_KEY)
    /\ Len(run_end[1].chunks) >= 2
    /\ run_end[1].failure = "credential"

----------------------------------------------------------------------------
\* split_documents on its own: applied to any list of the sample documents.

MaxSplitDocs == 2

SplitInputs ==
    UNION {[1..n -> SampleDocuments] : n \in 0..MaxSplitDocs}

InitSplit ==
    /\ OPENAI_API_KEY = <<>>
    /\ vector_store = None
    /\ rag_index_ready = FALSE
    /\ uploaded_files_info = <<>>
    /\ IngestionAtRest
    /\ ChatDefaults
    /\ FormatUnused
    /\ SearchUnused
    /\ SplitUnused
    /\ SelectUnused

\* chunks = split_documents(all_docs)
Split ==
    /\ split_out = None
    /\ split_out' = Some(split_documents(split_in))
    /\ UNCHANGED <<ingest_vars, chat_vars, fmt_vars, search_vars, select_vars, split_in>>

\* the next list of documents
NextInput ==
    /\ split_out /= None
    /\ split_in' \in SplitInputs
    /\ split_out' = None
    /\ UNCHANGED <<ingest_vars, chat_vars, fmt_vars, search_vars, select_vars>>

NextSplit == Split \/ NextInput

SpecSplit == InitSplit /\ [][NextSplit]_vars

----------------------------------------------------------------------------
\* Properties of a retriever query

\* the insertion position of a returned chunk (stored chunks are distinct)
StoredAt(c) == CHOOSE i \in 1..Len(srch_store) : srch_store[i] = c

QueryDistance(c) == Distance(Embed(c.page_content), Embed(srch_query))

\* C13: a query returns at most k chunks and at most as many as the index
\* holds, each a stored chunk and none twice; an index that holds fewer than
\* k chunks returns all of them.
C13_AtMostKResults ==
    srch_out /= None =>
        LET out == srch_out[1]
            n == Len(srch_store)
        IN  /\ Len(out) <= DEFAULT_K
            /\ Len(out) <= n
            /\ Range(out) \subseteq Range(srch_store)
            /\ \A r, q \in 1..Len(out) : out[r] = out[q] => r = q
            /\ n < DEFAULT_K => Range(out) = Range(srch_store)

\* an index of more than k chunks was queried, and one of fewer
C13_Witness ==
    /\ srch_out /= None
    /\ Len(srch_store) > DEFAULT_K
    /\ Len(srch_out[1]) = DEFAULT_K

\* C14: the results come nearest first, chunks at the same distance in the
\* order they were inserted, and no chunk left out is nearer than one returned.
C14_AscendingDistance ==
    srch_out /= None =>
        LET out == srch_out[1]
        IN  /\ \A r \in 1..(Len(out) - 1) :
                  \/ QueryDistance(out[r]) < QueryDistance(out[r + 1])
                  \/ /\ QueryDistance(out[r]) = QueryDistance(out[r + 1])
                     /\ StoredAt(out[r]) < StoredAt(out[r + 1])
            /\ \A c \in Range(srch_store) \ Range(out) :
                  \A r \in 1..Len(out) : QueryDistance(out[r]) <= QueryDistance(c)

\* two chunks at the same distance were returned, the later-inserted one
\* having the alphabetically earlier text
C14_Witness ==
    /\ srch_out /= None
    /\ \E r \in 1..(Len(srch_out[1]) - 1) :
          /\ srch_out[1][r].page_content = <<"delta">>
          /\ srch_out[1][r + 1].page_content = <<"beta">>

\* the message's text states a value of this meaning
States(m, meaning) == \E e \in Interpolated(m.kind) : e[2] = meaning

\* C18: a finished run over at least one file shows a message that states how
\* many files succeeded and a message that states how many failed.
C18_ReportsBothCounts ==
    (Finished /\ run_end[1].files /= <<>>) =>
        /\ \E m \in ui : States(m, "number of files processed")
        /\ \E m \in ui : States(m, "number of files failed")

\* C19: every file of a run that is not loaded has a message on the page that
\* names it.
C19_FailureNamesFile ==
    \A i \in 1..Len(run_log) :
        ~run_log[i].loaded =>
            \E m \in run_log[i].ui : m.file = FileName(run_log[i].file)

\* C20: whenever load_document was called for a file, its temporary directory
\* is gone when the call is over, whatever the call returned.
C20_TempDirRemoved ==
    \A i \in 1..Len(run_log) :
        run_log[i].downloaded => run_log[i].temp_dir_removed

\* a run in which load_document returned documents for one file and left
\* early, without a loader, for another
C20_Witness ==
    /\ Finished
    /\ \E i, j \in 1..Len(run_log) :
          /\ run_log[i].downloaded /\ run_log[i].loaded
          /\ run_log[j].downloaded /\ ~run_log[j].loaded /\ run_log[j].loader = "none"
          /\ run_log[i].temp_dir_removed /\ run_log[j].temp_dir_removed

----------------------------------------------------------------------------
\* Properties of split_documents

\* the chunks returned for the d-th document of split_in: the result lists
\* the chunks document by document
DocChunks(d) ==
    LET before == Len(Concat([x \in 1..(d - 1) |-> SplitTable[split_in[x]]]))
    IN  SubSeq(split_out[1], before + 1, before + Len(SplitTable[split_in[d]]))

ChunkStart(c) == c.metadata.start_index

ChunkEnd(c) == c.metadata.start_index + TextLen(c.page_content)

\* C15: no chunk is longer than the chunk size.
C15_ChunkWithinSize ==
    split_out /= None =>
        \A i \in 1..Len(split_out[1]) : TextLen(split_out[1][i].page_content) <= CHUNK_SIZE

\* a document longer than the chunk size was cut into several chunks, and
\* one of exactly the chunk size was kept whole
C15_Witness ==
    /\ split_out /= None
    /\ \E d \in 1..Len(split_in) :
          TextLen(split_in[d].page_content) > CHUNK_SIZE /\ Len(DocChunks(d)) >= 2
    /\ \E i \in 1..Len(split_out[1]) : TextLen(split_out[1][i].page_content) = CHUNK_SIZE

RECURSIVE DropChars(_, _)
\* text[n:], n characters being whole tokens of the text
DropChars(text, n) ==
    IF n <= 0 \/ text = <<>> THEN text ELSE DropChars(Tail(text), n - Len(Head(text)))

RECURSIVE Reassemble(_, _, _)
\* the chunks from the i-th on appended to what is rebuilt so far, each
\* without the characters its start_index puts before the end of the rebuilt
\* text
Reassemble(chunks, i, rebuilt) ==
    IF i > Len(chunks) THEN rebuilt
    ELSE Reassemble(chunks, i + 1,
                    rebuilt \o DropChars(chunks[i].page_content,
                                         TextLen(rebuilt) - ChunkStart(chunks[i])))

NonSpace(text) == SelectSeq(text, LAMBDA t : ~IsSpace(t))

\* the tokens of the d-th document that lie in none of its chunks
Uncovered(d) ==
    LET text == split_in[d].page_content
        at(t) == TextLen(SubSeq(text, 1, t - 1))
    IN  {text[t] : t \in {u \in 1..Len(text) :
                             \A i \in 1..Len(DocChunks(d)) :
                                 \/ at(u) < ChunkStart(DocChunks(d)[i])
                                 \/ at(u) + Len(text[u]) > ChunkEnd(DocChunks(d)[i])}}

AdjacentPairs ==
    UNION {{<<DocChunks(d)[i], DocChunks(d)[i + 1], i + 1 = Len(DocChunks(d))>> :
              i \in 1..(Len(DocChunks(d)) - 1)} : d \in 1..Len(split_in)}

\* the characters two adjacent chunks share according to their start_index
Overlap(pair) == ChunkEnd(pair[1]) - ChunkStart(pair[2])

----------------------------------------------------------------------------
\* Further properties of the session and of an ingestion run

\* C21: a run that embeds its chunks has made exactly one probe call, and a
\* run whose probe fails makes no batch embedding call and leaves the session
\* index as it was.
C21_ProbeGatesEmbedding ==
    (Finished /\ run_end[1].chunks /= <<>>) =>
        /\ run_end[1].embed.batch_embed_calls > 0 => run_end[1].embed.probe_calls = 1
        /\ run_end[1].failure = "probe" =>
              /\ run_end[1].embed.probe_calls = 1
              /\ run_end[1].embed.batch_embed_calls = 0
              /\ ~run_end[1].committed
              /\ SessionIndex = run_start

\* a run with a key and chunks whose probe failed while an index was held
C21_Witness ==
    /\ Finished
    /\ run_end[1].failure = "probe"
    /\ run_end[1].chunks /= <<>>
    /\ run_start[1] /= None

\* what the parsers returned for the loaded files of the run so far, and the
\* name of the file each of these documents came from
ParsedSoFar ==
    Concat([i \in 1..Len(run_log) |->
               IF run_log[i].loaded
               THEN [j \in 1..Len(ParserLoad(run_log[i].file).docs) |->
                        [parsed |-> ParserLoad(run_log[i].file).docs[j],
                         name |-> FileName(run_log[i].file)]]
               ELSE <<>>])

\* C22: the documents collected in a run are the parsers' documents in order,
\* each with source set to the name of its file in place of the source the
\* parser gave, and with the parser's page, when it gave one, unchanged.
C22_SourceStamped ==
    pc = "block" =>
        /\ Len(all_docs) = Len(ParsedSoFar)
        /\ \A k \in 1..Len(all_docs) :
              /\ all_docs[k].metadata.source = ParsedSoFar[k].name
              /\ all_docs[k].page_content = ParsedSoFar[k].parsed.page_content
              /\ DOMAIN all_docs[k].metadata = DOMAIN ParsedSoFar[k].parsed.metadata \cup {"source"}
              /\ "page" \in DOMAIN ParsedSoFar[k].parsed.metadata =>
                    all_docs[k].metadata.page = ParsedSoFar[k].parsed.metadata.page

\* the second page of b.PDF was collected: its parser gave a source (the
\* temporary path) and page 1
C22_Witness ==
    /\ pc = "block"
    /\ \E k \in 1..Len(all_docs) :
          /\ all_docs[k].metadata.source = <<"b", ".", "PDF">>
          /\ ParsedSoFar[k].parsed.metadata.source /= <<"b", ".", "PDF">>
          /\ "page" \in DOMAIN all_docs[k].metadata
          /\ all_docs[k].metadata.page = 1

\* text[start : start + len(chunk)] = chunk, start being a character offset
SliceIs(text, start, chunk) ==
    \E a \in 1..Len(text) :
        /\ TextLen(SubSeq(text, 1, a - 1)) = start
        /\ a + Len(chunk) - 1 <= Len(text)
        /\ SubSeq(text, a, a + Len(chunk) - 1) = chunk

\* C23: the content of a document, taken from a chunk's start_index for the
\* chunk's length, is the chunk's text.
C23_StartIndexLocatesChunk ==
    split_out /= None =>
        \A d \in 1..Len(split_in) : \A i \in 1..Len(DocChunks(d)) :
            SliceIs(split_in[d].page_content, ChunkStart(DocChunks(d)[i]),
                    DocChunks(d)[i].page_content)

\* a document that begins with white space gave a chunk at offset 1, and
\* another gave a second chunk that begins inside the first
C23_Witness ==
    /\ split_out /= None
    /\ \E d \in 1..Len(split_in) :
          /\ Len(DocChunks(d)) = 1
          /\ ChunkStart(DocChunks(d)[1]) = 1
    /\ \E d \in 1..Len(split_in) :
          /\ Len(DocChunks(d)) = 2
          /\ ChunkStart(DocChunks(d)[2]) > 0
          /\ ChunkStart(DocChunks(d)[2]) < ChunkEnd(DocChunks(d)[1])

\* C24: the flag is set exactly while the processing block runs, the button
\* is then disabled whatever is selected, and a step taken while the flag is
\* set either belongs to the run in progress (same stored lists, same index
\* at its start, a longer log, the session index untouched) or ends it,
\* resetting the flag; the index changes only in that last step.
C24_OneRunAtATime ==
    [][/\ processing_docs <=> pc = "block"
       /\ processing_docs =>
              /\ \A sel \in Selections :
                     button_disabled(Truthy(UploadedFiles(sel)),
                                     Truthy(SelectedDriveFilesInfo(sel)))
              /\ \/ /\ processing_docs'
                    /\ temp_local' = temp_local /\ temp_drive' = temp_drive
                    /\ run_start' = run_start
                    /\ Len(run_log') = Len(run_log) + 1
                    /\ SubSeq(run_log', 1, Len(run_log)) = run_log
                    /\ <<vector_store, rag_index_ready, uploaded_files_info>>'
                           = <<vector_store, rag_index_ready, uploaded_files_info>>
                 \/ /\ ~processing_docs'
                    /\ pc' = "finished"
                    /\ run_start' = run_start /\ run_log' = run_log]_vars

\* a run over two files is in progress, one file done, while an index is held
C24_Witness ==
    /\ processing_docs
    /\ pc = "block"
    /\ Len(run_log) = 1
    /\ Len(TempList(temp_local)) + Len(TempList(temp_drive)) = 2
    /\ vector_store /= None

\* the labels that open the sections of the system prompt, in the order
\* documents, Jira, personality, instructions, and the lines that close them
SectionOpeners ==
    <<RagHeader, "=== Context from Jira ===",
      "=== Your Personality Profile (Adapt response style) ===",
      "=== Model Instructions ===">>

SectionClosers ==
    <<RagFooter, "=========================",
      "=====================================================",
      "==========================">>

\* the place of a line of the system prompt in that order (the unlabelled
\* base instruction counts as instructions), 0 for any other piece of text
SectionRank(line) ==
    IF \E k \in 1..4 : SectionOpeners[k] = line
    THEN CHOOSE k \in 1..4 : SectionOpeners[k] = line
    ELSE IF line = BaseInstruction[1] THEN 4 ELSE 0

\* the calls of the turn that reached the chat model, each with the history
\* it was given (the history now held, less the answer appended since)
SentCalls ==
    IF turn_log = <<>> THEN {}
    ELSE {c \in {[call |-> turn_log[1], history |-> SubSeq(left_messages, 1, Len(left_messages) - 1)],
                 [call |-> turn_log[2], history |-> SubSeq(right_messages, 1, Len(right_messages) - 1)]} :
             c.call.result.api_called}

\* C25: in what is sent to the chat model the system message comes first and
\* the history follows it unchanged; in the system prompt the sections come
\* in the order documents, Jira, personality, instructions, each at most
\* once, and every label is followed by its text and its closing line before
\* the next section starts.
C25_SystemPromptOrder ==
    \A c \in SentCalls :
        LET am == c.call.result.api_messages
            sys == am[1].content
            ranked == {p \in DOMAIN sys : SectionRank(sys[p]) > 0}
        IN  /\ am[1].role = "system"
            /\ Len(am) = Len(c.history) + 1
            /\ \A i \in 1..Len(c.history) :
                  am[i + 1] = [role |-> c.history[i].role, content |-> c.history[i].content]
            /\ \A i \in 2..Len(am) : am[i].role \in {"user", "assistant"}
            /\ \A p1 \in ranked, p2 \in ranked :
                  p1 < p2 => SectionRank(sys[p1]) < SectionRank(sys[p2])
            /\ \A p1 \in ranked :
                  \A k \in 1..4 :
                      sys[p1] = SectionOpeners[k] =>
                          \E p2 \in (p1 + 3)..Len(sys) :
                              /\ sys[p2] = SectionClosers[k]
                              /\ sys[p1 + 1] = "\n\n" /\ sys[p2 - 1] = "\n\n"
                              /\ ranked \cap ((p1 + 1)..(p2 - 1)) = {}
                              /\ p2 = Len(sys) \/ sys[p2 + 1] = "\n\n"

\* the left call was sent with all four sections, the instructions labelled
C25_Witness ==
    /\ SentCalls /= {}
    /\ turn_log[1].result.api_called
    /\ \A k \in 1..4 : Contains(turn_log[1].result.api_messages[1].content, SectionOpeners[k])

\* C26: whenever the session says the index is ready it holds a vector
\* store: at the start, during and after every run whatever its outcome, and
\* after "Clear RAG Index".
C26_ReadyImpliesStore == rag_index_ready => vector_store /= None

\* a run that failed on its embedding requests has ended while an earlier
\* index is held and ready
C26_Witness ==
    /\ pc = "finished"
    /\ run_end /= None
    /\ run_end[1].chunks /= <<>>
    /\ ~run_end[1].committed
    /\ rag_index_ready
    /\ vector_store /= None

\* the files named by uploaded_files_info
ListedFiles == {uploaded_files_info[i].name : i \in 1..Len(uploaded_files_info)}

\* the files some chunk of the held index comes from
IndexedFiles ==
    IF vector_store = None THEN {}
    ELSE {vector_store[1].docs[i].metadata.source : i \in 1..Len(vector_store[1].docs)}

\* C27: uploaded_files_info names exactly the files whose chunks are in the
\* index the session holds.
C27_ListNamesIndexedFiles == ListedFiles = IndexedFiles

\* how many messages of a history have the role
CountRole(messages, role) == Cardinality({i \in 1..Len(messages) : messages[i].role = role})

\* the history got exactly one more message, of the role
OneAppended(before, after, role) ==
    /\ Len(after) = Len(before) + 1
    /\ SubSeq(after, 1, Len(before)) = before
    /\ after[Len(after)].role = role

\* C28: a submission that is accepted appends the typed text as one user
\* message to each history and stores it with the flag; the step taken while
\* the flag is set appends one assistant message to each history, whatever
\* the two calls returned, and removes the flag and the stored query; no
\* other step adds an assistant message, so each history holds as many
\* answers as questions once the flag is gone and one less while it is set.
C28_OneAnswerPerSubmission ==
    [][/\ processing_response <=> user_query_for_processing /= None
       /\ \A h \in {left_messages, right_messages} :
              CountRole(h, "user") = CountRole(h, "assistant")
                                     + (IF processing_response THEN 1 ELSE 0)
       /\ (~processing_response /\ processing_response') =>
              /\ OneAppended(left_messages, left_messages', "user")
              /\ OneAppended(right_messages, right_messages', "user")
              /\ left_messages'[Len(left_messages')].content = user_query_for_processing'[1]
              /\ right_messages'[Len(right_messages')].content = user_query_for_processing'[1]
       /\ processing_response =>
              /\ OneAppended(left_messages, left_messages', "assistant")
              /\ OneAppended(right_messages, right_messages', "assistant")
              /\ ~processing_response'
              /\ user_query_for_processing' = None
       /\ (~processing_response /\ ~processing_response') =>
              /\ CountRole(left_messages', "assistant") <= CountRole(left_messages, "assistant")
              /\ CountRole(right_messages', "assistant") <= CountRole(right_messages, "assistant")]_vars

\* a turn has been answered on both sides although the left call was refused
\* by the chat service and the right one was served
C28_Witness ==
    /\ turn_log /= <<>>
    /\ ~processing_response
    /\ user_query_for_processing = None
    /\ turn_log[1].result.api_called /\ turn_log[1].result.ui /= {}
    /\ turn_log[2].result.api_called /\ turn_log[2].result.ui = {}
    /\ Len(left_messages) = 2 /\ left_messages[2].role = "assistant"
    /\ left_messages[2].content = <<"Error: OpenAI Authentication failed.">>
    /\ Len(right_messages) = 2 /\ right_messages[2].role = "assistant"

----------------------------------------------------------------------------
\* The drive selection on its own: any listing of a drive, any options picked.

\* characters a file id is made of
IdChars == {"a", "b", "_"}

\* the longest file id
MaxIdLen == 2

\* the most files a listing holds
MaxListed == 2

DriveIds == UNION {[1..n -> IdChars] : n \in 1..MaxIdLen}

\* the listings a drive can return: files with distinct ids, named by position
DriveListings ==
    {[i \in 1..Len(ids) |-> [id |-> ids[i], name |-> <<"file", ToString(i)>>]] :
        ids \in {q \in UNION {[1..n -> DriveIds] : n \in 1..MaxListed} :
                    \A i \in 1..Len(q), j \in 1..Len(q) : q[i] = q[j] => i = j}}

InitSelect ==
    /\ OPENAI_API_KEY = <<>>
    /\ vector_store = None
    /\ rag_index_ready = FALSE
    /\ uploaded_files_info = <<>>
    /\ IngestionAtRest
    /\ ChatDefaults
    /\ FormatUnused
    /\ SearchUnused
    /\ SplitUnused
    /\ drive_source \in {"google", "onedrive"}
    /\ drive_files_list \in DriveListings
    /\ drive_picked = {}
    /\ drive_info = None

\* the multiselect returns some of the options and the script builds the
\* entries of selected_drive_files_info from them
SelectDriveFiles ==
    /\ drive_info = None
    /\ \E picked \in SUBSET (1..Len(drive_files_list)) :
          /\ picked /= {}
          /\ drive_picked' = picked
          /\ drive_info' = Some(DriveSelection(drive_source, drive_files_list, picked))
    /\ UNCHANGED <<ingest_vars, chat_vars, fmt_vars, search_vars, split_vars,
                   drive_source, drive_files_list>>

\* the files of a drive are listed anew
ListDriveFiles ==
    /\ drive_info /= None
    /\ drive_source' \in {"google", "onedrive"}
    /\ drive_files_list' \in DriveListings
    /\ drive_picked' = {}
    /\ drive_info' = None
    /\ UNCHANGED <<ingest_vars, chat_vars, fmt_vars, search_vars, split_vars>>

NextSelect == SelectDriveFiles \/ ListDriveFiles

SpecSelect == InitSelect /\ [][NextSelect]_vars

\* the listed files the picked options stand for, in the order of the listing
PickedFiles == SelectSeq(drive_files_list, LAMBDA f : \E i \in drive_picked : drive_files_list[i] = f)

\* C29: every entry built for a picked option carries the id and the name of
\* the listed file the option stands for; the drive loop hands that id to the
\* download call as it is.
C29_RecoveredIdIsListedId ==
    drive_info /= None =>
        /\ Len(drive_info[1]) = Len(PickedFiles)
        /\ \A i \in 1..Len(PickedFiles) :
              /\ drive_info[1][i].id = PickedFiles[i].id
              /\ drive_info[1][i].name = PickedFiles[i].name

----------------------------------------------------------------------------
\* Further properties of an ingestion run: what counts as a processed file

\* the files recorded as processed, and the error flag, of the run under way
\* or just ended
RunRecord ==
    IF pc = "block"
    THEN [processed |-> processed_files_info, has_errors |-> has_errors]
    ELSE [processed |-> run_end[1].processed, has_errors |-> run_end[1].has_errors]

\* C30: a file of the run is recorded as processed only if it was fetched
\* and load_document returned a list of at least one document for it; a file
\* for which load_document returned an empty list sets has_errors and is not
\* recorded, nor listed with the index the run commits.
C30_ProcessedMeansDocuments ==
    (pc \in {"block", "finished"}) =>
        /\ \A i \in 1..Len(run_log) :
              LET f == run_log[i].file
                  ret == load_document(f).ret
                  recorded == \E k \in 1..Len(RunRecord.processed) :
                                  RunRecord.processed[k].name = FileName(f)
              IN  /\ recorded => (run_log[i].downloaded /\ ret /= None /\ Len(ret[1]) >= 1)
                  /\ (run_log[i].downloaded /\ ret = Some(<<>>)) =>
                        /\ RunRecord.has_errors
                        /\ ~recorded
                        /\ (pc = "finished" /\ run_end[1].committed) =>
                              \A k \in 1..Len(uploaded_files_info) :
                                  uploaded_files_info[k].name /= FileName(f)
        /\ (pc = "finished" /\ run_end[1].committed) =>
              uploaded_files_info = RunRecord.processed

\* a run over a.txt and z.csv, whose parser returns no row, has committed an
\* index: z.csv set the error flag and only a.txt is listed
C30_Witness ==
    /\ pc = "finished"
    /\ run_end[1].committed
    /\ Len(run_log) = 2
    /\ \E i \in 1..2 : run_log[i].file = "fCsv" /\ load_document("fCsv").ret = Some(<<>>)
    /\ run_end[1].has_errors
    /\ Len(uploaded_files_info) = 1
    /\ uploaded_files_info[1].name = FileName("fTxt")
====
